---- MODULE Spec2Model ----
(***************************************************************************)
(* A model of the WhismurAI streaming translation back end.                *)
(*                                                                         *)
(*   backend/bot.py                    SentenceAggregator, TranslationSender,*)
(*                                     TranslationPreprocessor,            *)
(*                                     ContextManager, FastAPI transports, *)
(*                                     run_translation_bot (the pipeline)  *)
(*   backend/processors/*.py           TranslationProcessor,               *)
(*                                     FishAudioTTSService                 *)
(*   backend/whisper_stt.py            WhisperSTTService                   *)
(*   backend/server.py                 websocket_translate, active_sessions*)
(*   backend/bot_simplified.py         TranscriptSender                    *)
(*   app_streaming.py                  handle_translation,                 *)
(*                                     stream_audio_chunks                 *)
(*   app.py                            translate_text, translation_cache   *)
(*                                                                         *)
(* Text is a sequence of one-character strings, so that str.strip(),       *)
(* str.rstrip() and str.endswith() are computed and not assumed.           *)
(* A frame is a record whose "kind" is the name of its pipecat class.      *)
(***************************************************************************)
EXTENDS Integers, Sequences, FiniteSets, TLC

VARIABLES
    \* ---- SentenceAggregator (bot.py 33-144), driven frame by frame
    sentence_buffer,   \* SentenceAggregator.sentence_buffer
    agg_frame,         \* the frame of the latest process_frame call
    agg_before,        \* sentence_buffer when that call began
    agg_pushed,        \* the frames that call pushed downstream
    agg_ws,            \* the websocket.send_json attempts of that call
    agg_total,         \* number of Sentences pushed so far
    agg_quiet,         \* every call before the latest was an interim
                       \* transcription whose text did not end a sentence
    agg_raised,        \* whether an exception left the latest call
    agg_failures       \* number of calls whose send_json raised, counted
                       \* where the aggregator runs against a failing
                       \* websocket (SendFailureStep)

VARIABLES
    \* ---- server.py pipeline: TranslationProcessor -> FishAudioTTSService
    tp_frame,          \* the frame of the latest TranslationProcessor call
    tp_raised,         \* whether self.translate raised in that call
    tp_pushed,         \* the frames that call pushed downstream
    q_tts,             \* frames pushed by the translator, not yet taken by
                       \* the synthesizer
    tts_frame,         \* the frame of the latest FishAudioTTSService call
    tts_raised,        \* whether self.text_to_speech raised in that call
    tts_pushed,        \* the frames that call pushed downstream
    srv_n,             \* number of frames fed to the translator so far
    srv_failed,        \* number of translate calls that raised so far
    tts_calls,         \* number of text_to_speech calls of the latest
                       \* FishAudioTTSService call
    tts_escaped,       \* whether an exception left that call
    tts_failed         \* number of text_to_speech calls that raised so far

VARIABLES
    \* ---- run_translation_bot (bot.py 408-614): the processors of the
    \* pipeline, each with the queue of frames pushed to it
    q_pre,             \* to TranslationPreprocessor
    q_cm,              \* to ContextManager
    q_dbg_in,          \* to llm_debug_input
    q_llm,             \* to the LLM service
    q_dbg_out,         \* to llm_debug_output
    q_sender,          \* to TranslationSender
    q_conv,            \* to TranslationToTTS
    q_syn,             \* to the TTS service
    q_out,             \* to FastAPIOutputTransport
    message_count,     \* ContextManager.message_count
    cm_max_messages,   \* ContextManager.max_messages
    llm_messages,      \* llm_context.messages
    cm_sentences,      \* number of Sentences the ContextManager processed
    llm_requests,      \* the requests the LLM service received, in order
    conv_in,           \* the frames TranslationToTTS received, in order
    conv_out,          \* the frames TranslationToTTS pushed, in order
    ws_audio           \* the websocket.send_bytes calls, in order

VARIABLES
    \* ---- FastAPIInputTransport (bot.py 309-354)
    receive_task,      \* where self._receive_task stands: "none" (not
                       \* created), "receive" (awaiting receive_bytes),
                       \* "push" (a chunk received, awaiting the push_frame
                       \* of its InputAudioRawFrame),
                       \* "except" (in the except branch, before its
                       \* push_frame has handed the CancelFrame on), "done"
                       \* (returned), "cancelled" (ended by CancelledError)
    cancel_requested,  \* _receive_task.cancel() was called and the
                       \* CancelledError is not yet delivered
    ws_connected,      \* the client's websocket connection is up
    in_pushed,         \* the kinds of the frames the transport pushed, in order
    stop_pc            \* where stop(EndFrame) stands: "idle" (not called),
                       \* "await" (awaiting self._receive_task), "returned"

VARIABLES
    \* ---- WhisperSTTService (whisper_stt.py 16-128); audio is counted in
    \* units of 8000 samples, each unit named by its ordinal in the stream
    audio_buffer,      \* self._audio_buffer: the units buffered, in order
    stt_fed,           \* number of units received so far
    stt_window,        \* the window the latest run_stt call took from the
                       \* buffer (<<>> if it took none)
    stt_outcome,       \* what became of the latest call's transcription
    stt_pushed,        \* the frames the latest process_frame call pushed
    stt_escaped,       \* whether an exception left that call
    stt_transcribed,   \* the windows handed to _transcribe_chunk, in order
    stt_failed         \* number of transcriptions that failed so far

VARIABLES
    \* ---- TranslationSender (bot.py 147-249) on its own
    snd_queue,         \* the frames pushed to it and not yet processed
    snd_fed,           \* number of frames pushed to it so far
    snd_in,            \* the frames it has processed, in order
    snd_out,           \* the frames it has pushed downstream, in order
    snd_ws,            \* the websocket.send_json attempts of its latest call
    snd_escaped        \* whether an exception left its latest call

VARIABLES
    \* ---- FastAPIOutputTransport (bot.py 357-392) on its own
    out_queue,         \* the frames pushed to it and not yet processed
    out_fed,           \* number of frames pushed to it so far
    out_in,            \* the frames it has processed, in order
    out_sends,         \* the websocket.send_bytes attempts so far, in order
    out_escaped        \* whether an exception left its latest call

VARIABLES
    \* ---- app_streaming.py: one start_translation request
    hs_pc,             \* where handle_translation stands: "idle" (no request
                       \* yet), "transcribe", "translate", "post" (before the
                       \* TTS request), "stream" (in the loop over the audio),
                       \* "returned", "raised" (left by an exception)
    hs_events,         \* the events emitted to the client, in order
    hs_audio_len,      \* len(audio_data), the bytes of the TTS response
    hs_i               \* the loop variable i of stream_audio_chunks

VARIABLES
    \* ---- app.py: translate_text and its cache
    translation_cache, \* the dict translation_cache: a function from keys
    tr_call            \* the latest translate_text call: its arguments and
                       \* the value it returned

VARIABLES
    \* ---- server.py: websocket_translate, one call per connection
    active_sessions,   \* the keys of the dict active_sessions
    conn_pc,           \* where each call stands: "idle" (not connected),
                       \* "config" (awaiting receive_json), "ready" (session
                       \* registered, awaiting the send of "ready"), "running"
                       \* (awaiting session.start()), "finally" (at the head
                       \* of the finally block), "stopping" (awaiting
                       \* session.stop()), "finished"
    conn_path          \* how each call came to its finally block, and
                       \* whether stop() raised

VARIABLES
    \* ---- bot_simplified.py: TranscriptSender
    last_transcript,   \* TranscriptSender.last_transcript
    ts_frame,          \* the frame of the latest process_frame call
    ts_ws,             \* the websocket.send_json attempts of that call
    ts_pushed,         \* the frames that call pushed downstream
    ts_delivered,      \* the messages whose send_json returned, in order
    ts_calls           \* number of process_frame calls so far

aggVars == <<sentence_buffer, agg_frame, agg_before, agg_pushed, agg_ws,
             agg_total, agg_quiet, agg_raised, agg_failures>>

srvVars == <<tp_frame, tp_raised, tp_pushed, q_tts, tts_frame, tts_raised,
             tts_pushed, srv_n, srv_failed, tts_calls, tts_escaped, tts_failed>>

pipeVars == <<q_pre, q_cm, q_dbg_in, q_llm, q_dbg_out, q_sender, q_conv, q_syn,
              q_out, message_count, llm_messages, cm_sentences, llm_requests,
              conv_in, conv_out, ws_audio, cm_max_messages>>

inVars == <<receive_task, cancel_requested, ws_connected, in_pushed, stop_pc>>

sttVars == <<audio_buffer, stt_fed, stt_window, stt_outcome, stt_pushed,
             stt_escaped, stt_transcribed, stt_failed>>

\* the variables of the components above
coreVars == <<aggVars, srvVars, pipeVars, inVars, sttVars>>

sndVars == <<snd_queue, snd_fed, snd_in, snd_out, snd_ws, snd_escaped>>

outVars == <<out_queue, out_fed, out_in, out_sends, out_escaped>>

hsVars == <<hs_pc, hs_events, hs_audio_len, hs_i>>

trVars == <<translation_cache, tr_call>>

wsVars == <<active_sessions, conn_pc, conn_path>>

tsVars == <<last_transcript, ts_frame, ts_ws, ts_pushed, ts_delivered, ts_calls>>

\* the variables of the components that are modelled each on its own
auxVars == <<sndVars, outVars, hsVars, trVars, wsVars, tsVars>>

vars == <<coreVars, auxVars>>

----------------------------------------------------------------------------
(* Bounds of the model.                                                    *)

\* longest transcript text fed to the aggregator, in characters
MaxTextLen == 2
\* number of Sentences the aggregator pushes in one run (the number of frames
\* fed to it is not bounded)
MaxSentences == 2
\* number of frames fed to the server.py pipeline in one run
MaxSrvFrames == 3
\* number of Sentences that enter the run_translation_bot pipeline in one run
MaxPipeSentences == 2
\* number of Sentences that reach the ContextManager and the LLM service in
\* one run of the pipeline's first half
MaxCtxSentences == 4
\* most tokens in one LLM response
MaxTokens == 2
\* number of frames fed to TranslationToTTS on its own
MaxConvFrames == 4
\* number of Sentences the aggregator pushes in one run against a websocket
\* whose send_json may raise
MaxSendSentences == 3
\* number of send_json calls that raise in such a run
MaxSendFailures == 2
\* number of audio chunks the client sends over the websocket in one run
MaxChunks == 5
\* number of CancelFrames the input transport may push in one run (the code
\* pushes one at most; the bound only keeps a faulty variant finite)
MaxCancelFrames == 2
\* number of Sentences fed to a ContextManager on its own
MaxResetSentences == 3
\* largest max_messages such a ContextManager is constructed with
MaxMaxMessages == 3
\* number of frames other than Sentences fed to such a ContextManager
MaxOtherFrames == 2
\* number of frames fed to TranslationSender on its own
MaxSenderFrames == 3
\* number of frames fed to FastAPIOutputTransport on its own
MaxOutputFrames == 3
\* most whole chunks of 8192 bytes in one TTS response
MaxStreamChunks == 4
\* number of websocket connections to server.py in one run
MaxConnections == 2
\* number of frames fed to TranscriptSender in one run
MaxTranscriptFrames == 4
\* units of audio (of 8000 samples) fed to WhisperSTTService in one run
MaxAudioUnits == 10
\* largest chunk of audio in one InputAudioRawFrame, in units
MaxChunkUnits == 4

----------------------------------------------------------------------------
(* Text.                                                                   *)

\* the characters transcripts are drawn from: a blank, a letter, a full stop
Chars == {" ", "a", "."}

\* what str.strip() / str.rstrip() remove
Whitespace == {" ", "\t", "\n", "\r"}

Texts == UNION {[1..n -> Chars] : n \in 0..MaxTextLen}

RECURSIVE LStrip(_)
LStrip(s) ==
    IF s = <<>> THEN <<>>
    ELSE IF Head(s) \in Whitespace THEN LStrip(Tail(s)) ELSE s

RECURSIVE RStrip(_)
RStrip(s) ==
    IF s = <<>> THEN <<>>
    ELSE IF s[Len(s)] \in Whitespace THEN RStrip(SubSeq(s, 1, Len(s) - 1))
         ELSE s

\* a mutant of Strip: only trailing whitespace is removed
StripTrailingOnly(s) == RStrip(s)

\* str.strip()
Strip(s) == LStrip(RStrip(s))

EndsWith(s, suffix) ==
    /\ Len(s) >= Len(suffix)
    /\ SubSeq(s, Len(s) - Len(suffix) + 1, Len(s)) = suffix

\* the tuple given to endswith at bot.py:62, as the file holds it: the three
\* ASCII marks and three 3-character strings, each character named here by
\* its code point
TerminalPunctuation ==
    { <<".">>, <<"!">>, <<"?">>,
      <<"U+201E", "U+00C4", "U+00C7">>,
      <<"U+00D4", "U+00BA", "U+00C5">>,
      <<"U+00D4", "U+00BA", "U+00FC">> }

\* text.rstrip().endswith((".", "!", "?", ...))
HasPunctuation(text) ==
    \E p \in TerminalPunctuation : EndsWith(RStrip(text), p)

----------------------------------------------------------------------------
(* Frames.                                                                 *)

\* TranscriptionFrame(text=...), as the STT service produces it; speech_final
\* is the attribute process_frame reads with getattr(frame, "speech_final")
TranscriptionFrame(text, speech_final) ==
    [kind |-> "TranscriptionFrame", text |-> text, speech_final |-> speech_final]

\* any frame that is no TranscriptionFrame (audio, start, end, ...)
OtherFrame == [kind |-> "InputAudioRawFrame", text |-> <<>>, speech_final |-> FALSE]

NoFrame == [kind |-> "None", text |-> <<>>, speech_final |-> FALSE]

\* the frames the aggregator is fed
AggFrames ==
    {TranscriptionFrame(t, f) : t \in Texts, f \in BOOLEAN} \cup {OtherFrame}

\* {"type": "transcript", "mode": "original", "text": ..., "is_final": ...}
OriginalStatus(text, is_final) ==
    [type |-> "transcript", mode |-> "original", text |-> text, is_final |-> is_final]

----------------------------------------------------------------------------
(* SentenceAggregator.process_frame, bot.py 44-144.                        *)
(* Each operator gives the buffer afterwards, the frames pushed downstream *)
(* and the status messages handed to websocket.send_json.                  *)

\* a mutant of AggInterim: a length threshold on the interim boundary
AggInterimThreshold(buf, text) ==
    LET buffered == text
    IN  IF HasPunctuation(text) /\ Len(buffered) > 2
        THEN [buffer |-> <<>>,
              pushed |-> <<TranscriptionFrame(buffered, FALSE)>>,
              ws     |-> <<OriginalStatus(buffered, TRUE)>>]
        ELSE [buffer |-> buffered,
              pushed |-> <<>>,
              ws     |-> <<OriginalStatus(buffered, FALSE)>>]

\* a mutant of AggInterim: the interim text is appended to the buffer
AggInterimAppends(buf, text) ==
    LET buffered == buf \o text
    IN  IF HasPunctuation(text)
        THEN [buffer |-> <<>>,
              pushed |-> <<TranscriptionFrame(buffered, FALSE)>>,
              ws     |-> <<OriginalStatus(buffered, TRUE)>>]
        ELSE [buffer |-> buffered,
              pushed |-> <<>>,
              ws     |-> <<OriginalStatus(buffered, FALSE)>>]

\* a mutant of AggInterim: an interim that is only buffered sends no status
AggInterimSilent(buf, text) ==
    LET buffered == text
    IN  IF HasPunctuation(text)
        THEN [buffer |-> <<>>,
              pushed |-> <<TranscriptionFrame(buffered, FALSE)>>,
              ws     |-> <<OriginalStatus(buffered, TRUE)>>]
        ELSE [buffer |-> buffered,
              pushed |-> <<>>,
              ws     |-> <<>>]

\* a mutant of AggInterim: an interim that completes a Sentence is reported
\* as not final
AggInterimReportsInterim(buf, text) ==
    LET buffered == text
    IN  IF HasPunctuation(text)
        THEN [buffer |-> <<>>,
              pushed |-> <<TranscriptionFrame(buffered, FALSE)>>,
              ws     |-> <<OriginalStatus(buffered, FALSE)>>]
        ELSE [buffer |-> buffered,
              pushed |-> <<>>,
              ws     |-> <<OriginalStatus(buffered, FALSE)>>]

\* the branch "if not is_final", bot.py 65-114; buf is self.sentence_buffer
\* as the call found it, which line 68 overwrites
AggInterim(buf, text) ==
    LET buffered == text      \* self.sentence_buffer = text (replace)
    IN  IF HasPunctuation(text)
        THEN [buffer |-> <<>>,
              pushed |-> <<TranscriptionFrame(buffered, FALSE)>>,
              ws     |-> <<OriginalStatus(buffered, TRUE)>>]
        ELSE [buffer |-> buffered,
              pushed |-> <<>>,
              ws     |-> <<OriginalStatus(buffered, FALSE)>>]

\* a mutant of AggFinal: the buffer is not cleared
AggFinalKeepsBuffer(buf, text) ==
    [buffer |-> buf,
     pushed |-> <<TranscriptionFrame(text, FALSE)>>,
     ws     |-> <<OriginalStatus(text, TRUE)>>]

\* the branch "else" (speech_final), bot.py 115-140
AggFinal(buf, text) ==
    [buffer |-> <<>>,
     pushed |-> <<TranscriptionFrame(text, FALSE)>>,
     ws     |-> <<OriginalStatus(text, TRUE)>>]

\* a mutant of AggregatorProcessFrame: the "if not text: return" is missing
AggregatorNoEmptyCheck(buf, frame) ==
    IF frame.kind = "TranscriptionFrame"
    THEN LET is_final == frame.speech_final
             text     == Strip(frame.text)
         IN  IF ~is_final THEN AggInterim(buf, text) ELSE AggFinal(buf, text)
    ELSE [buffer |-> buf, pushed |-> <<frame>>, ws |-> <<>>]

AggregatorProcessFrame(buf, frame) ==
    IF frame.kind = "TranscriptionFrame"
    THEN LET is_final == frame.speech_final
             text     == Strip(frame.text)
         IN  IF text = <<>>
             THEN [buffer |-> buf, pushed |-> <<>>, ws |-> <<>>]
             ELSE IF ~is_final THEN AggInterim(buf, text) ELSE AggFinal(buf, text)
    ELSE [buffer |-> buf, pushed |-> <<frame>>, ws |-> <<>>]

\* the Sentences among the frames pushed
Sentences(pushed) == SelectSeq(pushed, LAMBDA f : f.kind = "TranscriptionFrame")

InitAgg ==
    /\ sentence_buffer = <<>>
    /\ agg_frame = NoFrame
    /\ agg_before = <<>>
    /\ agg_pushed = <<>>
    /\ agg_ws = <<>>
    /\ agg_total = 0
    /\ agg_quiet = TRUE
    /\ agg_raised = FALSE
    /\ agg_failures = 0

\* a mutant of AggOutcome: send_json is awaited outside any try, so that its
\* exception leaves process_frame before push_frame and before the buffer is
\* cleared
AggOutcomeUncaught(r, send_ok) ==
    IF r.ws # <<>> /\ ~send_ok
    THEN [buffer |-> r.ws[1].text, pushed |-> <<>>, raised |-> TRUE]
    ELSE [buffer |-> r.buffer, pushed |-> r.pushed, raised |-> FALSE]

\* what a call leaves behind given the outcome of its send_json: every
\* send_json is awaited inside try / except Exception (bot.py 78-88, 101-111,
\* 121-131), which prints and goes on, so the outcome does not depend on it
AggOutcome(r, send_ok) ==
    [buffer |-> r.buffer, pushed |-> r.pushed, raised |-> FALSE]

\* one process_frame call; send_ok: websocket.send_json returns (TRUE) or
\* raises (FALSE), which the handler catches and logs
AggCall(frame, send_ok) ==
    LET r == AggregatorProcessFrame(sentence_buffer, frame)
        o == AggOutcome(r, send_ok)
    IN  /\ sentence_buffer' = o.buffer
        /\ agg_frame' = frame
        /\ agg_before' = sentence_buffer
        /\ agg_pushed' = o.pushed
        /\ agg_raised' = o.raised
        /\ agg_ws' = [i \in 1..Len(r.ws) |-> [msg |-> r.ws[i], ok |-> send_ok]]
        /\ agg_total' = agg_total + Len(Sentences(o.pushed))
        /\ agg_quiet' = (agg_frame = NoFrame \/
                           (/\ agg_quiet
                            /\ agg_frame.kind = "TranscriptionFrame"
                            /\ ~agg_frame.speech_final
                            /\ ~HasPunctuation(Strip(agg_frame.text))))

\* the aggregator on its own, fed any frame
SentenceAggregatorStep ==
    /\ agg_total < MaxSentences
    /\ \E frame \in AggFrames, send_ok \in BOOLEAN : AggCall(frame, send_ok)
    /\ UNCHANGED agg_failures

\* the frames fed to the aggregator while its websocket fails: an interim that
\* is buffered, an interim and a final that complete a Sentence, another frame
SendFrames ==
    { TranscriptionFrame(<<"a">>, FALSE),
      TranscriptionFrame(<<"a", ".">>, FALSE),
      TranscriptionFrame(<<" ", "a">>, TRUE),
      OtherFrame }

\* the aggregator fed frame by frame while send_json may raise, the calls
\* whose send_json raised being counted
SendFailureStep ==
    /\ agg_total < MaxSendSentences
    /\ \E frame \in SendFrames, send_ok \in BOOLEAN :
          /\ (send_ok \/ agg_failures < MaxSendFailures)
          /\ AggCall(frame, send_ok)
          /\ agg_failures' =
                IF AggregatorProcessFrame(sentence_buffer, frame).ws # <<>> /\ ~send_ok
                THEN agg_failures + 1 ELSE agg_failures

----------------------------------------------------------------------------
(* The pipeline of server.py 143-150: stt, translator, tts.                *)

\* pipecat's TextFrame and its subclasses: what isinstance(frame, TextFrame)
\* accepts
TextFrameKinds ==
    {"TextFrame", "TranscriptionFrame", "InterimTranscriptionFrame",
     "LLMTextFrame", "TTSTextFrame"}

IsTextFrame(f) == f.kind \in TextFrameKinds

TextFrame(text) == [kind |-> "TextFrame", text |-> text]

\* AudioRawFrame(audio=audio_data), audio_data being the speech for `text`
AudioRawFrame(text) == [kind |-> "AudioRawFrame", text |-> text]

EndFrame == [kind |-> "EndFrame", text |-> <<>>]

NoSrvFrame == [kind |-> "None", text |-> <<>>]

\* what the translation API returns for `text`
Translated(text) == <<"[", "e", "s", "]">> \o text

\* the texts the STT service hands to the translator: none, a blank, and
\* two sentences
SrvTexts == {<<>>, <<" ">>, <<"h", "i">>, <<"y", "o", ".">>}

SrvFrames ==
    {[kind |-> k, text |-> t] : k \in {"TranscriptionFrame", "TextFrame"},
                                 t \in SrvTexts} \cup {EndFrame}

\* a mutant of TranslationProcessFrame: nothing is pushed when translate
\* raises
TranslationDropsOnError(frame, translate_ok) ==
    IF IsTextFrame(frame)
    THEN IF frame.text = <<>> \/ Strip(frame.text) = <<>>
         THEN <<>>
         ELSE IF translate_ok
              THEN <<TextFrame(Translated(frame.text))>>
              ELSE <<>>
    ELSE <<frame>>

\* TranslationProcessor.process_frame, translation_processor.py 26-52: the
\* frames pushed downstream; translate_ok: self.translate returned (TRUE) or
\* raised (FALSE)
TranslationProcessFrame(frame, translate_ok) ==
    IF IsTextFrame(frame)
    THEN IF frame.text = <<>> \/ Strip(frame.text) = <<>>
         THEN <<>>
         ELSE IF translate_ok
              THEN <<TextFrame(Translated(frame.text))>>
              ELSE <<frame>>           \* "Pass through original on error"
    ELSE <<frame>>

\* a mutant of TTSProcessFrame: when text_to_speech raises, an audio frame
\* without audio is pushed for the chunk
TTSPushesSilenceOnError(frame, tts_ok) ==
    IF IsTextFrame(frame)
    THEN IF frame.text = <<>> \/ Strip(frame.text) = <<>>
         THEN <<>>
         ELSE IF tts_ok THEN <<AudioRawFrame(frame.text)>> ELSE <<AudioRawFrame(<<>>)>>
    ELSE <<frame>>

\* FishAudioTTSService.process_frame, fishaudio_tts.py 27-53; tts_ok:
\* self.text_to_speech returned (TRUE) or raised (FALSE)
TTSProcessFrame(frame, tts_ok) ==
    IF IsTextFrame(frame)
    THEN IF frame.text = <<>> \/ Strip(frame.text) = <<>>
         THEN <<>>
         ELSE IF tts_ok THEN <<AudioRawFrame(frame.text)>> ELSE <<>>
    ELSE <<frame>>

\* the number of times process_frame awaits self.text_to_speech for a frame:
\* once, at fishaudio_tts.py:38, for a text frame that is not blank; there is
\* no loop and the except branch only logs
TTSCalls(frame) ==
    IF IsTextFrame(frame) /\ frame.text # <<>> /\ Strip(frame.text) # <<>>
    THEN 1 ELSE 0

\* whether an exception leaves process_frame: text_to_speech, the making of
\* the audio frame and push_frame are all inside try / except Exception
\* (fishaudio_tts.py 36-50)
TTSEscapes(frame, tts_ok) == FALSE

InitSrv ==
    /\ tp_frame = NoSrvFrame
    /\ tp_raised = FALSE
    /\ tp_pushed = <<>>
    /\ q_tts = <<>>
    /\ tts_frame = NoSrvFrame
    /\ tts_raised = FALSE
    /\ tts_pushed = <<>>
    /\ srv_n = 0
    /\ srv_failed = 0
    /\ tts_calls = 0
    /\ tts_escaped = FALSE
    /\ tts_failed = 0

\* the translator processes the next frame of the STT service
TranslationProcessorStep ==
    /\ srv_n < MaxSrvFrames
    /\ \E frame \in SrvFrames, translate_ok \in BOOLEAN :
          LET called == IsTextFrame(frame) /\ Strip(frame.text) # <<>>
              pushed == TranslationProcessFrame(frame, translate_ok)
          IN  /\ called \/ translate_ok
              /\ tp_frame' = frame
              /\ tp_raised' = (called /\ ~translate_ok)
              /\ tp_pushed' = pushed
              /\ q_tts' = q_tts \o pushed
              /\ srv_n' = srv_n + 1
              /\ srv_failed' = srv_failed + (IF called /\ ~translate_ok THEN 1 ELSE 0)
    /\ UNCHANGED <<tts_frame, tts_raised, tts_pushed, tts_calls, tts_escaped,
                   tts_failed>>

\* the synthesizer processes the next frame the translator pushed
FishAudioTTSStep ==
    /\ q_tts # <<>>
    /\ \E tts_ok \in BOOLEAN :
          LET frame  == Head(q_tts)
              called == IsTextFrame(frame) /\ Strip(frame.text) # <<>>
          IN  /\ called \/ tts_ok
              /\ tts_frame' = frame
              /\ tts_raised' = (called /\ ~tts_ok)
              /\ tts_pushed' = TTSProcessFrame(frame, tts_ok)
              /\ tts_calls' = TTSCalls(frame)
              /\ tts_escaped' = TTSEscapes(frame, tts_ok)
              /\ tts_failed' = tts_failed + (IF called /\ ~tts_ok THEN 1 ELSE 0)
              /\ q_tts' = Tail(q_tts)
    /\ UNCHANGED <<tp_frame, tp_raised, tp_pushed, srv_n, srv_failed>>

----------------------------------------------------------------------------
(* The pipeline of run_translation_bot, bot.py 577-592.                    *)
(* A frame is [kind, text, src, idx]. src and idx are not fields of the    *)
(* code's frames: src is the ordinal of the Sentence a frame derives from  *)
(* (the order in which the aggregator completed it), idx the position of a *)
(* token in its LLM response; they name a frame where its order matters.   *)

PFrame(kind, text, src, idx) == [kind |-> kind, text |-> text, src |-> src, idx |-> idx]

\* ContextManager(llm_context, max_messages=5), bot.py:537
PipelineMaxMessages == 5

\* system_prompt, bot.py 498-515
SystemPrompt == <<"S", "Y", "S">>

\* the messages llm_context is created with, bot.py 517-524
InitialMessages == <<[role |-> "system", content |-> SystemPrompt]>>

\* f"Translate to {self.target_lang_name}: {frame.text}", bot.py:265
TranslationPrompt(text) == <<"T", "r", " ", "t", "o", " ", "X", ":", " ">> \o text

\* the transcripts the STT service produces in the pipeline: an interim that
\* is buffered, an interim that ends a sentence, a final
PipeFrames ==
    { TranscriptionFrame(<<"a">>, FALSE),
      TranscriptionFrame(<<"a", ".">>, FALSE),
      TranscriptionFrame(<<"a", " ", "b">>, TRUE) }

\* a mutant of PreprocessFrame: the Sentence becomes a TextFrame with its
\* text as it is, without the instruction
PreprocessKeepsText(frame) ==
    IF frame.kind = "TranscriptionFrame"
    THEN PFrame("TextFrame", frame.text, frame.src, frame.idx)
    ELSE frame

\* TranslationPreprocessor.process_frame, bot.py 259-272: the frame pushed
PreprocessFrame(frame) ==
    IF frame.kind = "TranscriptionFrame"
    THEN PFrame("TextFrame", TranslationPrompt(frame.text), frame.src, frame.idx)
    ELSE frame

\* a mutant of ContextManagerProcessFrame: the count is compared with > and
\* the reset comes one Sentence late
ContextManagerResetsLate(count, messages, frame, max_messages) ==
    IF frame.kind = "TranscriptionFrame"
    THEN IF count + 1 > max_messages
         THEN [count    |-> 0,
               messages |-> IF Len(messages) > 0 THEN <<messages[1]>>
                                                 ELSE messages]
         ELSE [count |-> count + 1, messages |-> messages]
    ELSE [count |-> count, messages |-> messages]

\* a mutant of ContextManagerProcessFrame: at the bound only the oldest turn
\* after the system prompt is dropped
ContextManagerSlidingWindow(count, messages, frame, max_messages) ==
    IF frame.kind = "TranscriptionFrame"
    THEN IF count + 1 >= max_messages
         THEN [count    |-> 0,
               messages |-> IF Len(messages) > 1
                            THEN <<messages[1]>> \o SubSeq(messages, 3, Len(messages))
                            ELSE messages]
         ELSE [count |-> count + 1, messages |-> messages]
    ELSE [count |-> count, messages |-> messages]

\* ContextManager.process_frame, bot.py 284-306: message_count and
\* context.messages afterwards (the frame is pushed unchanged)
ContextManagerProcessFrame(count, messages, frame, max_messages) ==
    IF frame.kind = "TranscriptionFrame"
    THEN IF count + 1 >= max_messages
         THEN [count    |-> 0,
               messages |-> IF Len(messages) > 0 THEN <<messages[1]>>
                                                 ELSE messages]
         ELSE [count |-> count + 1, messages |-> messages]
    ELSE [count |-> count, messages |-> messages]

\* the text of the idx-th token of a translation
TokenText(idx) == IF idx = 1 THEN <<"h", "o", "l", "a">> ELSE <<" ", "x">>

\* the frames of one LLM response of n tokens to the request `frame`
LLMResponse(frame, n) ==
    [i \in 1..n |-> PFrame("LLMTextFrame", TokenText(i), frame.src, i)]
    \o <<PFrame("LLMFullResponseEndFrame", <<>>, frame.src, 0)>>

RECURSIVE Concat(_)
\* the concatenation of the texts of a sequence of frames
Concat(frames) ==
    IF frames = <<>> THEN <<>> ELSE Head(frames).text \o Concat(Tail(frames))

\* TranslationSender.process_frame, bot.py 156-249: the status messages
\* handed to websocket.send_json (the frame is pushed unchanged)
TranslationSenderMessages(frame) ==
    IF IsTextFrame(frame) /\ frame.text # <<>> /\ Strip(frame.text) # <<>>
    THEN <<[type |-> "transcript", mode |-> "translation",
            text |-> frame.text, is_final |-> TRUE]>>
    ELSE <<>>

\* a mutant of TranslationToTTSFrame: blank tokens are not converted
TranslationToTTSSkipsBlank(frame) ==
    IF frame.kind = "LLMTextFrame"
    THEN IF Strip(frame.text) = <<>>
         THEN <<>>
         ELSE <<PFrame("TTSTextFrame", frame.text, frame.src, frame.idx)>>
    ELSE <<frame>>

\* TranslationToTTS.process_frame, bot.py 562-573: the frames pushed
TranslationToTTSFrame(frame) ==
    IF frame.kind = "LLMTextFrame"
    THEN <<PFrame("TTSTextFrame", frame.text, frame.src, frame.idx)>>
    ELSE <<frame>>

\* the classes FastAPIOutputTransport.process_frame returns on, bot.py 364-376
OutputFiltered(frame) ==
    \/ IsTextFrame(frame)
    \/ frame.kind \in {"LLMFullResponseStartFrame", "LLMFullResponseEndFrame",
                       "InterruptionFrame", "TTSStartedFrame", "TTSStoppedFrame"}

\* TTSAudioRawFrame is an OutputAudioRawFrame
IsOutputAudio(frame) == frame.kind \in {"OutputAudioRawFrame", "TTSAudioRawFrame"}

\* a mutant of OutputSends: "if" where the code has "elif", so that a TTS
\* audio frame is sent by both branches
OutputSendsTwice(frame) ==
    IF OutputFiltered(frame) THEN <<>>
    ELSE (IF frame.kind = "TTSAudioRawFrame" THEN <<frame>> ELSE <<>>)
         \o (IF IsOutputAudio(frame) THEN <<frame>> ELSE <<>>)

\* FastAPIOutputTransport.process_frame, bot.py 362-392: the audio frames
\* handed to websocket.send_bytes
OutputSends(frame) ==
    IF OutputFiltered(frame) THEN <<>>
    ELSE IF frame.kind = "TTSAudioRawFrame" THEN <<frame>>
    ELSE IF IsOutputAudio(frame) THEN <<frame>>
    ELSE <<>>

InitPipe ==
    /\ q_pre = <<>> /\ q_cm = <<>> /\ q_dbg_in = <<>> /\ q_llm = <<>>
    /\ q_dbg_out = <<>> /\ q_sender = <<>> /\ q_conv = <<>> /\ q_syn = <<>>
    /\ q_out = <<>>
    /\ message_count = 0
    /\ llm_messages = InitialMessages
    /\ cm_sentences = 0
    /\ llm_requests = <<>>
    /\ conv_in = <<>>
    /\ conv_out = <<>>
    /\ ws_audio = <<>>
    /\ cm_max_messages = PipelineMaxMessages

\* a mutant of Push: the frame goes to the front of the queue
PushFront(queue, frames) == frames \o queue

\* push_frame: the frames join the next processor's queue
Push(queue, frames) == queue \o frames

\* sentence_aggregator in the pipeline: it processes the next transcript of
\* the STT service and pushes to translation_preprocessor. Of the call only
\* the buffer, the count of Sentences and the frames pushed are kept here:
\* its status messages are what SentenceAggregatorStep records.
AggregatorStage(limit) ==
    /\ agg_total < limit
    /\ \E frame \in PipeFrames :
          LET r == AggregatorProcessFrame(sentence_buffer, frame)
          IN  /\ sentence_buffer' = r.buffer
              /\ agg_total' = agg_total + Len(Sentences(r.pushed))
              /\ q_pre' = Push(q_pre, [i \in 1..Len(r.pushed) |->
                               PFrame(r.pushed[i].kind, r.pushed[i].text,
                                      agg_total + 1, 0)])
    /\ UNCHANGED <<agg_frame, agg_before, agg_pushed, agg_ws, agg_quiet,
                   agg_raised, agg_failures>>
    /\ UNCHANGED <<q_cm, q_dbg_in, q_llm, q_dbg_out, q_sender, q_conv, q_syn, q_out,
                   message_count, llm_messages, cm_sentences, llm_requests,
                   conv_in, conv_out, ws_audio, cm_max_messages>>

\* the text of the scenario's transcript
Hello == <<"H", "e", "l", "l", "o">>

\* the final transcripts of the end-to-end scenario: "Hello", the same with
\* blanks around it, and another utterance
HelloFrames ==
    { TranscriptionFrame(Hello, TRUE),
      TranscriptionFrame(<<" ">> \o Hello \o <<" ">>, TRUE),
      TranscriptionFrame(<<"H", "i", "!">>, TRUE) }

\* sentence_aggregator in the pipeline, fed the one final transcript of the
\* end-to-end scenario, which agg_frame keeps
HelloStage ==
    /\ agg_total = 0
    /\ \E frame \in HelloFrames :
          LET r == AggregatorProcessFrame(sentence_buffer, frame)
          IN  /\ agg_frame' = frame
              /\ sentence_buffer' = r.buffer
              /\ agg_total' = agg_total + Len(Sentences(r.pushed))
              /\ q_pre' = Push(q_pre, [i \in 1..Len(r.pushed) |->
                               PFrame(r.pushed[i].kind, r.pushed[i].text,
                                      agg_total + 1, 0)])
    /\ UNCHANGED <<agg_before, agg_pushed, agg_ws, agg_quiet,
                   agg_raised, agg_failures>>
    /\ UNCHANGED <<q_cm, q_dbg_in, q_llm, q_dbg_out, q_sender, q_conv, q_syn, q_out,
                   message_count, llm_messages, cm_sentences, llm_requests,
                   conv_in, conv_out, ws_audio, cm_max_messages>>

\* translation_preprocessor
PreprocessorStage ==
    /\ q_pre # <<>>
    /\ q_pre' = Tail(q_pre)
    /\ q_cm' = Push(q_cm, <<PreprocessFrame(Head(q_pre))>>)
    /\ UNCHANGED <<q_dbg_in, q_llm, q_dbg_out, q_sender, q_conv, q_syn, q_out,
                   message_count, llm_messages, cm_sentences, llm_requests,
                   conv_in, conv_out, ws_audio, cm_max_messages>>

\* context_manager
ContextManagerStage ==
    /\ q_cm # <<>>
    /\ LET frame == Head(q_cm)
           r == ContextManagerProcessFrame(message_count, llm_messages, frame,
                                           cm_max_messages)
       IN  /\ message_count' = r.count
           /\ llm_messages' = r.messages
           /\ cm_sentences' = cm_sentences + (IF frame.src > 0 THEN 1 ELSE 0)
           /\ q_dbg_in' = Push(q_dbg_in, <<frame>>)
    /\ q_cm' = Tail(q_cm)
    /\ UNCHANGED <<q_pre, q_llm, q_dbg_out, q_sender, q_conv, q_syn, q_out,
                   llm_requests, conv_in, conv_out, ws_audio, cm_max_messages>>

\* llm_debug_input: LLMDebugProcessor.process_frame, bot.py 543-553
DebugInputStage ==
    /\ q_dbg_in # <<>>
    /\ q_dbg_in' = Tail(q_dbg_in)
    /\ q_llm' = Push(q_llm, <<Head(q_dbg_in)>>)
    /\ UNCHANGED <<q_pre, q_cm, q_dbg_out, q_sender, q_conv, q_syn, q_out,
                   message_count, llm_messages, cm_sentences, llm_requests,
                   conv_in, conv_out, ws_audio, cm_max_messages>>

\* llm: a text frame is a request; it joins the context as a user turn, is
\* answered by a response of one or more tokens, and the response joins the
\* context as an assistant turn. Any other frame passes through.
LLMStage ==
    /\ q_llm # <<>>
    /\ LET frame == Head(q_llm)
       IN  IF IsTextFrame(frame)
           THEN \E n \in 1..MaxTokens :
                  LET response == LLMResponse(frame, n)
                      request  == Append(llm_messages,
                                         [role |-> "user", content |-> frame.text])
                  IN  /\ llm_requests' = Append(llm_requests,
                                                [src |-> frame.src, messages |-> request])
                      /\ llm_messages' = Append(request,
                             [role |-> "assistant", content |-> Concat(response)])
                      /\ q_dbg_out' = Push(q_dbg_out, response)
           ELSE /\ q_dbg_out' = Push(q_dbg_out, <<frame>>)
                /\ UNCHANGED <<llm_requests, llm_messages>>
    /\ q_llm' = Tail(q_llm)
    /\ UNCHANGED <<q_pre, q_cm, q_dbg_in, q_sender, q_conv, q_syn, q_out,
                   message_count, cm_sentences, conv_in, conv_out, ws_audio, cm_max_messages>>

\* llm_debug_output
DebugOutputStage ==
    /\ q_dbg_out # <<>>
    /\ q_dbg_out' = Tail(q_dbg_out)
    /\ q_sender' = Push(q_sender, <<Head(q_dbg_out)>>)
    /\ UNCHANGED <<q_pre, q_cm, q_dbg_in, q_llm, q_conv, q_syn, q_out,
                   message_count, llm_messages, cm_sentences, llm_requests,
                   conv_in, conv_out, ws_audio, cm_max_messages>>

\* translation_sender: the frame is pushed on whether or not a status message
\* is sent for it and whether or not the send raises
TranslationSenderStage ==
    /\ q_sender # <<>>
    /\ q_conv' = Push(q_conv, <<Head(q_sender)>>)
    /\ q_sender' = Tail(q_sender)
    /\ UNCHANGED <<q_pre, q_cm, q_dbg_in, q_llm, q_dbg_out, q_syn, q_out,
                   message_count, llm_messages, cm_sentences, llm_requests,
                   conv_in, conv_out, ws_audio, cm_max_messages>>

\* translation_to_tts
TranslationToTTSStage ==
    /\ q_conv # <<>>
    /\ LET frame == Head(q_conv)
       IN  /\ conv_in' = Append(conv_in, frame)
           /\ conv_out' = conv_out \o TranslationToTTSFrame(frame)
           /\ q_syn' = Push(q_syn, TranslationToTTSFrame(frame))
    /\ q_conv' = Tail(q_conv)
    /\ UNCHANGED <<q_pre, q_cm, q_dbg_in, q_llm, q_dbg_out, q_sender, q_out,
                   message_count, llm_messages, cm_sentences, llm_requests,
                   ws_audio, cm_max_messages>>

\* tts: a TTSTextFrame becomes one TTSAudioRawFrame holding the speech for
\* its text; any other frame passes through
TTSStage ==
    /\ q_syn # <<>>
    /\ LET frame == Head(q_syn)
       IN  IF frame.kind = "TTSTextFrame"
           THEN q_out' = Push(q_out,
                    <<PFrame("TTSAudioRawFrame", frame.text, frame.src, frame.idx)>>)
           ELSE q_out' = Push(q_out, <<frame>>)
    /\ q_syn' = Tail(q_syn)
    /\ UNCHANGED <<q_pre, q_cm, q_dbg_in, q_llm, q_dbg_out, q_sender, q_conv,
                   message_count, llm_messages, cm_sentences, llm_requests,
                   conv_in, conv_out, ws_audio, cm_max_messages>>

\* transport.output(): each audio frame is handed to websocket.send_bytes once;
\* a call that raises is caught and logged (bot.py 385-386, 391-392) and
\* changes nothing here
OutputTransportStage ==
    /\ q_out # <<>>
    /\ LET sends == OutputSends(Head(q_out))
       IN  ws_audio' = ws_audio \o
                    [i \in 1..Len(sends) |->
                        [src |-> sends[i].src, idx |-> sends[i].idx,
                         audio |-> sends[i].text]]
    /\ q_out' = Tail(q_out)
    /\ UNCHANGED <<q_pre, q_cm, q_dbg_in, q_llm, q_dbg_out, q_sender, q_conv, q_syn,
                   message_count, llm_messages, cm_sentences, llm_requests,
                   conv_in, conv_out, cm_max_messages>>

\* the frames of a queue that derive from a Sentence
Derived(queue) == SelectSeq(queue, LAMBDA f : f.src > 0)

\* the frames of a queue that derive from no Sentence
Underived(queue) == SelectSeq(queue, LAMBDA f : f.src = 0)

\* ContextManager(llm_context, max_messages=m), bot.py 278-282, for a
\* ContextManager that is fed Sentences directly; nothing was fed yet
NewContextManager ==
    /\ Len(q_cm) + cm_sentences = 0
    /\ \E m \in 1..MaxMaxMessages : cm_max_messages' = m
    /\ UNCHANGED <<q_pre, q_cm, q_dbg_in, q_llm, q_dbg_out, q_sender, q_conv, q_syn,
                   q_out, message_count, llm_messages, cm_sentences, llm_requests,
                   conv_in, conv_out, ws_audio>>

\* a Sentence, as the SentenceAggregator pushes it, is pushed to the
\* ContextManager; src is its ordinal
FeedSentence ==
    /\ Len(Derived(q_cm)) + cm_sentences < MaxResetSentences
    /\ q_cm' = Push(q_cm, <<PFrame("TranscriptionFrame", <<"a", ".">>,
                                  Len(Derived(q_cm)) + cm_sentences + 1, 0)>>)
    /\ UNCHANGED <<q_pre, q_dbg_in, q_llm, q_dbg_out, q_sender, q_conv, q_syn,
                   q_out, message_count, llm_messages, cm_sentences, llm_requests,
                   conv_in, conv_out, ws_audio, cm_max_messages>>

\* the frames other than Sentences fed to such a ContextManager: a TextFrame
\* that is no TranscriptionFrame (what the TranslationPreprocessor pushes) and
\* a frame without text
WindowOtherFrames ==
    { PFrame("TextFrame", TranslationPrompt(<<"a", ".">>), 0, 0),
      PFrame("EndFrame", <<>>, 0, 0) }

\* every frame pushed to the ContextManager so far has passed the LLM service
WindowIdle == q_cm = <<>> /\ q_dbg_in = <<>> /\ q_llm = <<>>

\* a frame that is no TranscriptionFrame is pushed to the ContextManager
FeedOtherFrame ==
    /\ WindowIdle
    /\ Len(Underived(q_dbg_in \o q_llm \o q_dbg_out)) < MaxOtherFrames
    /\ \E frame \in WindowOtherFrames : q_cm' = Push(q_cm, <<frame>>)
    /\ UNCHANGED <<q_pre, q_dbg_in, q_llm, q_dbg_out, q_sender, q_conv, q_syn,
                   q_out, message_count, llm_messages, cm_sentences, llm_requests,
                   conv_in, conv_out, ws_audio, cm_max_messages>>

\* TranslationToTTS on its own, fed any frame the LLM service can push
ConvFrames ==
    { PFrame("LLMTextFrame", t, 0, 0) : t \in {<<"h", "i">>, <<" ">>, <<"!">>} }
    \cup { PFrame("LLMFullResponseEndFrame", <<>>, 0, 0) }

TranslationToTTSStep ==
    /\ Len(conv_in) < MaxConvFrames
    /\ \E frame \in ConvFrames :
          /\ conv_in' = Append(conv_in, frame)
          /\ conv_out' = conv_out \o TranslationToTTSFrame(frame)
    /\ UNCHANGED <<q_pre, q_cm, q_dbg_in, q_llm, q_dbg_out, q_sender, q_conv, q_syn,
                   q_out, message_count, llm_messages, cm_sentences, llm_requests,
                   ws_audio, cm_max_messages>>

----------------------------------------------------------------------------
(* FastAPIInputTransport, bot.py 309-354: start creates the task that runs *)
(* _receive_audio, stop cancels and awaits it.                             *)

InitIn ==
    /\ receive_task = "none"
    /\ cancel_requested = FALSE
    /\ ws_connected = TRUE
    /\ in_pushed = <<>>
    /\ stop_pc = "idle"

\* the task has ended
Finished(task) == task \in {"done", "cancelled"}

CountKind(frames, kind) == Len(SelectSeq(frames, LAMBDA k : k = kind))

\* a mutant of AfterExcept: the try is inside the while loop, so that the
\* loop goes on after the except branch
ExceptInsideLoop == "receive"

\* where _receive_audio goes after its except branch: the try encloses the
\* whole while loop (bot.py 324-344), so the function returns
AfterExcept == "done"

\* a mutant of CancelOnStop: stop awaits the task without cancelling it
StopDoesNotCancel(task) == FALSE

\* self._receive_task.cancel(), bot.py 348-349: a CancelledError is to be
\* thrown into the task, unless it has ended already
CancelOnStop(task) == ~Finished(task)

\* start(frame), bot.py 315-319
InputStart ==
    /\ receive_task = "none" /\ stop_pc = "idle"
    /\ receive_task' = "receive"
    /\ UNCHANGED <<cancel_requested, ws_connected, in_pushed, stop_pc>>

\* receive_bytes returns a chunk of the client, bot.py 326
ReceiveChunk ==
    /\ receive_task = "receive" /\ ws_connected
    /\ CountKind(in_pushed, "InputAudioRawFrame") < MaxChunks
    /\ receive_task' = "push"
    /\ UNCHANGED <<cancel_requested, ws_connected, in_pushed, stop_pc>>

\* the chunk is pushed as an InputAudioRawFrame and the loop goes round,
\* bot.py 336-341
PushAudioFrame ==
    /\ receive_task = "push"
    /\ in_pushed' = Append(in_pushed, "InputAudioRawFrame")
    /\ receive_task' = "receive"
    /\ UNCHANGED <<cancel_requested, ws_connected, stop_pc>>

\* the client's connection drops
ConnectionDrops ==
    /\ ws_connected
    /\ ws_connected' = FALSE
    /\ UNCHANGED <<receive_task, cancel_requested, in_pushed, stop_pc>>

\* receive_bytes raises on the dropped connection; "except Exception"
\* (bot.py 342) catches it
ReceiveRaises ==
    /\ receive_task = "receive" /\ ~ws_connected
    /\ receive_task' = "except"
    /\ UNCHANGED <<cancel_requested, ws_connected, in_pushed, stop_pc>>

\* await self.push_frame(CancelFrame()), bot.py 344
PushCancelFrame ==
    /\ receive_task = "except"
    /\ CountKind(in_pushed, "CancelFrame") < MaxCancelFrames
    /\ in_pushed' = Append(in_pushed, "CancelFrame")
    /\ receive_task' = AfterExcept
    /\ UNCHANGED <<cancel_requested, ws_connected, stop_pc>>

\* the CancelledError of a cancel() reaches the task at the await it is
\* suspended in (receive_bytes or a push_frame); it is no Exception, so
\* nothing catches it and the task ends
DeliverCancel ==
    /\ cancel_requested /\ receive_task \in {"receive", "push", "except"}
    /\ receive_task' = "cancelled"
    /\ cancel_requested' = FALSE
    /\ UNCHANGED <<ws_connected, in_pushed, stop_pc>>

\* stop(frame) up to its await, bot.py 346-350
StopCancel ==
    /\ stop_pc = "idle"
    /\ IF receive_task = "none"
       THEN stop_pc' = "returned" /\ UNCHANGED cancel_requested
       ELSE /\ stop_pc' = "await"
            /\ cancel_requested' = CancelOnStop(receive_task)
    /\ UNCHANGED <<receive_task, ws_connected, in_pushed>>

\* await self._receive_task returns or raises CancelledError, which is
\* passed over; super().stop(frame) follows, bot.py 350-353
StopReturns ==
    /\ stop_pc = "await" /\ Finished(receive_task)
    /\ stop_pc' = "returned"
    /\ UNCHANGED <<receive_task, cancel_requested, ws_connected, in_pushed>>

----------------------------------------------------------------------------
(* WhisperSTTService, whisper_stt.py 55-128.                               *)

\* self._min_buffer_size = int(16000 * 1.5) samples, whisper_stt.py 49-51,
\* in units of 8000 samples
MinBufferSize == 3

\* what can become of one run_stt call:
\*   "text"     Whisper decodes the window to text that is not blank
\*   "blank"    Whisper decodes the window to blank text
\*   "caught"   _transcribe_chunk catches an exception and returns
\*              {"text": ""} (whisper_stt.py 114-116)
\*   "raised"   run_in_executor raises in run_stt (whisper_stt.py 72-76)
\*   "none"     no window was taken: the buffer is too short
\*   "bad"      the chunk's bytes are no int16 samples and np.frombuffer
\*              raises (whisper_stt.py 59)
TranscribeOutcomes == {"text", "blank", "caught", "raised"}

SttFailures == {"caught", "raised"}

SttTranscriptionFrame(window) == [kind |-> "TranscriptionFrame", window |-> window]

ErrorFrame == [kind |-> "ErrorFrame", window |-> <<>>]

\* a mutant of RunStt: the window is cut from the buffer only once it has
\* been transcribed, so that a window whose transcription fails is taken
\* again by the next call
RunSttRetriesWindow(buffer, chunk, outcome) ==
    IF outcome = "bad"
    THEN [buffer |-> buffer, window |-> <<>>, yields |-> <<ErrorFrame>>]
    ELSE LET joined == buffer \o chunk
         IN  IF Len(joined) >= MinBufferSize
             THEN LET window == SubSeq(joined, 1, MinBufferSize)
                      rest   == SubSeq(joined, MinBufferSize + 1, Len(joined))
                  IN  [buffer |-> IF outcome \in SttFailures THEN joined ELSE rest,
                       window |-> window,
                       yields |-> IF outcome = "text"
                                  THEN <<SttTranscriptionFrame(window)>>
                                  ELSE IF outcome = "raised" THEN <<ErrorFrame>>
                                  ELSE <<>>]
             ELSE [buffer |-> joined, window |-> <<>>, yields |-> <<>>]

\* run_stt(audio), whisper_stt.py 55-87: the buffer afterwards, the window
\* taken and the frames yielded. The window is cut from the buffer (lines
\* 67-68) before it is transcribed; every exception is caught at line 85
\* and an ErrorFrame is yielded.
RunStt(buffer, chunk, outcome) ==
    IF outcome = "bad"
    THEN [buffer |-> buffer, window |-> <<>>, yields |-> <<ErrorFrame>>]
    ELSE LET joined == buffer \o chunk
         IN  IF Len(joined) >= MinBufferSize
             THEN LET window == SubSeq(joined, 1, MinBufferSize)
                      rest   == SubSeq(joined, MinBufferSize + 1, Len(joined))
                  IN  [buffer |-> rest,
                       window |-> window,
                       yields |-> IF outcome = "text"
                                  THEN <<SttTranscriptionFrame(window)>>
                                  ELSE IF outcome = "raised" THEN <<ErrorFrame>>
                                  ELSE <<>>]
             ELSE [buffer |-> joined, window |-> <<>>, yields |-> <<>>]

InitStt ==
    /\ audio_buffer = <<>>
    /\ stt_fed = 0
    /\ stt_window = <<>>
    /\ stt_outcome = "none"
    /\ stt_pushed = <<>>
    /\ stt_escaped = FALSE
    /\ stt_transcribed = <<>>
    /\ stt_failed = 0

\* process_frame(frame) for an InputAudioRawFrame, whisper_stt.py 118-125:
\* every frame run_stt yields is pushed. n is the size of the chunk in units
\* (0: bytes that are no samples).
WhisperProcessAudio ==
    \E n \in 0..MaxChunkUnits, o \in TranscribeOutcomes :
       LET chunk   == [i \in 1..n |-> stt_fed + i]
           takes   == n > 0 /\ Len(audio_buffer) + n >= MinBufferSize
           outcome == IF n = 0 THEN "bad" ELSE IF takes THEN o ELSE "none"
           r       == RunStt(audio_buffer, chunk, outcome)
       IN  /\ stt_fed + n <= MaxAudioUnits
           /\ (takes \/ o = "text")
           /\ audio_buffer' = r.buffer
           /\ stt_fed' = stt_fed + n
           /\ stt_window' = r.window
           /\ stt_outcome' = outcome
           /\ stt_pushed' = r.yields
           /\ stt_escaped' = FALSE
           /\ stt_transcribed' = IF r.window # <<>>
                                  THEN Append(stt_transcribed, r.window)
                                  ELSE stt_transcribed
           /\ stt_failed' = stt_failed + (IF outcome \in SttFailures THEN 1 ELSE 0)

\* process_frame(frame) for any other frame: it is passed through
WhisperPassThrough ==
    /\ stt_pushed' = <<[kind |-> "EndFrame", window |-> <<>>]>>
    /\ stt_window' = <<>>
    /\ stt_outcome' = "none"
    /\ stt_escaped' = FALSE
    /\ UNCHANGED <<audio_buffer, stt_fed, stt_transcribed, stt_failed>>

----------------------------------------------------------------------------
(* TranslationSender on its own, bot.py 147-249, against a websocket whose *)
(* send_json may raise. idx is the ordinal of a frame in the stream.       *)

\* the frames the LLM service and the processors before it push: a token, a
\* blank token, a token without text, a frame that has no text at all
SenderFrames(idx) ==
    { PFrame("LLMTextFrame", <<"h", "i">>, 0, idx),
      PFrame("LLMTextFrame", <<" ">>, 0, idx),
      PFrame("LLMTextFrame", <<>>, 0, idx),
      PFrame("LLMFullResponseEndFrame", <<>>, 0, idx) }

\* a mutant of TranslationSenderProcessFrame: push_frame stands inside the
\* try, after send_json, so that a failed send skips it
TranslationSenderDropsOnError(frame, send_ok) ==
    LET msgs == TranslationSenderMessages(frame)
    IN  [ws      |-> [i \in 1..Len(msgs) |-> [msg |-> msgs[i], ok |-> send_ok]],
         pushed  |-> IF msgs # <<>> /\ ~send_ok THEN <<>> ELSE <<frame>>,
         escaped |-> FALSE]

\* TranslationSender.process_frame, bot.py 156-249: the send_json attempts,
\* the frames pushed and whether an exception leaves the call. The send is
\* inside try / except Exception (159-247); push_frame follows the try (249).
TranslationSenderProcessFrame(frame, send_ok) ==
    LET msgs == TranslationSenderMessages(frame)
    IN  [ws      |-> [i \in 1..Len(msgs) |-> [msg |-> msgs[i], ok |-> send_ok]],
         pushed  |-> <<frame>>,
         escaped |-> FALSE]

InitSnd ==
    /\ snd_queue = <<>>
    /\ snd_fed = 0
    /\ snd_in = <<>>
    /\ snd_out = <<>>
    /\ snd_ws = <<>>
    /\ snd_escaped = FALSE

\* the processor upstream pushes a frame to the TranslationSender
SenderFeed ==
    /\ snd_fed < MaxSenderFrames
    /\ \E frame \in SenderFrames(snd_fed + 1) : snd_queue' = Push(snd_queue, <<frame>>)
    /\ snd_fed' = snd_fed + 1
    /\ UNCHANGED <<snd_in, snd_out, snd_ws, snd_escaped>>

\* one process_frame call, on the oldest frame waiting
TranslationSenderStep ==
    /\ snd_queue # <<>>
    /\ \E send_ok \in BOOLEAN :
          LET r == TranslationSenderProcessFrame(Head(snd_queue), send_ok)
          IN  /\ snd_ws' = r.ws
              /\ snd_out' = snd_out \o r.pushed
              /\ snd_escaped' = r.escaped
    /\ snd_in' = Append(snd_in, Head(snd_queue))
    /\ snd_queue' = Tail(snd_queue)
    /\ UNCHANGED snd_fed

----------------------------------------------------------------------------
(* FastAPIOutputTransport on its own, bot.py 357-392, against a websocket  *)
(* whose send_bytes may raise. The audio of a frame is its text field, idx *)
(* the ordinal of the frame in the stream.                                 *)

\* the frames that reach the output transport: synthesized audio, other
\* output audio, a frame of a filtered class, a frame that is neither
OutputFrames(idx) ==
    { PFrame("TTSAudioRawFrame", a, 0, idx) : a \in {<<"p">>, <<"q">>} }
    \cup { PFrame("OutputAudioRawFrame", <<"r">>, 0, idx),
           PFrame("TTSStoppedFrame", <<>>, 0, idx),
           PFrame("EndFrame", <<>>, 0, idx) }

InitOut ==
    /\ out_queue = <<>>
    /\ out_fed = 0
    /\ out_in = <<>>
    /\ out_sends = <<>>
    /\ out_escaped = FALSE

\* the processor upstream pushes a frame to the output transport
OutputFeed ==
    /\ out_fed < MaxOutputFrames
    /\ \E frame \in OutputFrames(out_fed + 1) : out_queue' = Push(out_queue, <<frame>>)
    /\ out_fed' = out_fed + 1
    /\ UNCHANGED <<out_in, out_sends, out_escaped>>

\* one process_frame call, on the oldest frame waiting; send_ok: send_bytes
\* returns (TRUE) or raises (FALSE), which both branches catch and print
\* (bot.py 385-386, 391-392)
OutputTransportStep ==
    /\ out_queue # <<>>
    /\ \E send_ok \in BOOLEAN :
          LET sends == OutputSends(Head(out_queue))
          IN  out_sends' = out_sends \o
                  [i \in 1..Len(sends) |->
                      [idx |-> sends[i].idx, audio |-> sends[i].text, ok |-> send_ok]]
    /\ out_escaped' = FALSE
    /\ out_in' = Append(out_in, Head(out_queue))
    /\ out_queue' = Tail(out_queue)
    /\ UNCHANGED out_fed

----------------------------------------------------------------------------
(* app_streaming.py: handle_translation (188-233) and stream_audio_chunks  *)
(* (80-149), for one start_translation request. stream_loop.py and         *)
(* stream_standalone.py hold the same code.                                *)

\* chunk_size, app_streaming.py:112
ChunkSize == 8192

\* the lengths of a TTS response: whole chunks, and a byte or a byte short of
\* a chunk more
AudioLens ==
    { k * ChunkSize + d : k \in 0..MaxStreamChunks, d \in {0, 1, ChunkSize - 1} }

\* an event without chunk fields
Event(name) ==
    [name |-> name, chunk_number |-> 0, total_chunks |-> 0, is_final |-> FALSE]

\* total_chunks = len(audio_data) // chunk_size + 1, app_streaming.py:113
TotalChunks(len) == len \div ChunkSize + 1

\* the audio_chunk event of the loop body at index i, app_streaming.py 122-131
AudioChunkEvent(i, len) ==
    [name |-> "audio_chunk",
     chunk_number |-> i \div ChunkSize,
     total_chunks |-> TotalChunks(len),
     is_final |-> (i + ChunkSize >= len)]

InitStream ==
    /\ hs_pc = "idle"
    /\ hs_events = <<>>
    /\ hs_audio_len = 0
    /\ hs_i = 0

\* handle_translation up to the first call that can fail, 194-209:
\* data.get("filename") is None when the request names no file, and
\* os.path.join raises on it before the try; a file that does not exist is
\* answered by an error event
HandleTranslation ==
    /\ hs_pc = "idle"
    /\ \E has_filename, file_exists \in BOOLEAN :
          IF ~has_filename
          THEN hs_pc' = "raised" /\ UNCHANGED hs_events
          ELSE IF ~file_exists
          THEN hs_pc' = "returned" /\ hs_events' = <<Event("error")>>
          ELSE hs_pc' = "transcribe" /\ hs_events' = <<Event("progress")>>
    /\ UNCHANGED <<hs_audio_len, hs_i>>

\* transcribe_audio returns or raises, 211-215 and the except of 229-233
TranscribeAudio ==
    /\ hs_pc = "transcribe"
    /\ \E ok \in BOOLEAN :
          IF ok
          THEN hs_pc' = "translate" /\ hs_events' = Append(hs_events, Event("progress"))
          ELSE hs_pc' = "returned" /\ hs_events' = Append(hs_events, Event("error"))
    /\ UNCHANGED <<hs_audio_len, hs_i>>

\* translate_text returns or raises, 216-221
TranslateText ==
    /\ hs_pc = "translate"
    /\ \E ok \in BOOLEAN :
          IF ok
          THEN /\ hs_pc' = "post"
               /\ hs_events' = hs_events \o <<Event("progress"), Event("streaming_started")>>
          ELSE hs_pc' = "returned" /\ hs_events' = Append(hs_events, Event("error"))
    /\ UNCHANGED <<hs_audio_len, hs_i>>

\* stream_audio_chunks up to the loop, 105-113: requests.post answers 200
\* with some audio, answers another status, or raises; the last two emit an
\* error and return False, after which handle_translation emits nothing
PostTTS ==
    /\ hs_pc = "post"
    /\ \/ \E len \in AudioLens :
             /\ hs_audio_len' = len
             /\ hs_pc' = "stream"
             /\ UNCHANGED hs_events
       \/ /\ hs_events' = Append(hs_events, Event("error"))
          /\ hs_pc' = "returned"
          /\ UNCHANGED hs_audio_len
    /\ hs_i' = 0

\* one pass of "for i in range(0, len(audio_data), chunk_size)", 115-134; an
\* emit that raises is caught at 145 and answered by an error
EmitAudioChunk ==
    /\ hs_pc = "stream"
    /\ hs_i < hs_audio_len
    /\ \E ok \in BOOLEAN :
          IF ok
          THEN /\ hs_events' = Append(hs_events, AudioChunkEvent(hs_i, hs_audio_len))
               /\ hs_i' = hs_i + ChunkSize
               /\ UNCHANGED hs_pc
          ELSE /\ hs_events' = Append(hs_events, Event("error"))
               /\ hs_pc' = "returned"
               /\ UNCHANGED hs_i
    /\ UNCHANGED hs_audio_len

\* the loop is over: stream_audio_chunks returns True (136) and
\* handle_translation emits streaming_complete (226-227)
StreamingComplete ==
    /\ hs_pc = "stream"
    /\ hs_i >= hs_audio_len
    /\ hs_events' = Append(hs_events, Event("streaming_complete"))
    /\ hs_pc' = "returned"
    /\ UNCHANGED <<hs_audio_len, hs_i>>

----------------------------------------------------------------------------
(* app.py: translate_text (64-87) and translation_cache (24).              *)

\* the number of leading characters of the text that enter the cache key,
\* app.py:66
CachePrefix == 100

\* a transcript of CachePrefix characters
LongPrefix == [i \in 1..CachePrefix |-> "a"]

\* the texts translated: a short one, one of exactly CachePrefix characters,
\* and two longer ones that differ only after their first CachePrefix
\* characters
TranslateTexts ==
    { <<"h", "i">>, LongPrefix, LongPrefix \o <<"x">>, LongPrefix \o <<"y">> }

\* the target languages
TranslateLanguages == { <<"e", "s">>, <<"f", "r">> }

\* text[:100]
Prefix(text) ==
    SubSeq(text, 1, IF Len(text) < CachePrefix THEN Len(text) ELSE CachePrefix)

\* cache_key = f"{text[:100]}_{target_language}", app.py:66
CacheKey(text, target_language) == Prefix(text) \o <<"_">> \o target_language

\* what the model answers for a text and a language (app.py 76-84): a
\* translation of that text to that language, named by the two
Translation(text, target_language) == [of |-> text, to |-> target_language]

NoCall == [text |-> <<>>, target_language |-> <<>>, cached |-> FALSE,
           result |-> Translation(<<>>, <<>>)]

InitTranslate ==
    /\ translation_cache = <<>>
    /\ tr_call = NoCall

\* one translate_text(text, target_language) call
TranslateTextCall ==
    \E text \in TranslateTexts, target_language \in TranslateLanguages :
        LET cache_key == CacheKey(text, target_language)
        IN  IF cache_key \in DOMAIN translation_cache
            THEN /\ tr_call' = [text |-> text, target_language |-> target_language,
                                cached |-> TRUE,
                                result |-> translation_cache[cache_key]]
                 /\ UNCHANGED translation_cache
            ELSE LET translated == Translation(text, target_language)
                 IN  /\ translation_cache' =
                            [k \in DOMAIN translation_cache \cup {cache_key} |->
                                IF k = cache_key THEN translated
                                ELSE translation_cache[k]]
                     /\ tr_call' = [text |-> text, target_language |-> target_language,
                                    cached |-> FALSE, result |-> translated]

----------------------------------------------------------------------------
(* server.py: websocket_translate (206-254) and active_sessions (188). A   *)
(* connection is named by its session_id, id(websocket).                   *)

Connections == 1..MaxConnections

InitSessions ==
    /\ active_sessions = {}
    /\ conn_pc = [c \in Connections |-> "idle"]
    /\ conn_path = [c \in Connections |-> "none"]

\* await websocket.accept(), 209-210
AcceptConnection(c) ==
    /\ conn_pc[c] = "idle"
    /\ conn_pc' = [conn_pc EXCEPT ![c] = "config"]
    /\ UNCHANGED <<active_sessions, conn_path>>

\* the first message, 213-235: a config creates and registers the session;
\* any other message is answered by an error and a return; receive_json can
\* raise WebSocketDisconnect or another exception
ReceiveConfig(c) ==
    /\ conn_pc[c] = "config"
    /\ \E first \in {"config", "not a config", "disconnect", "error"} :
          IF first = "config"
          THEN /\ active_sessions' = active_sessions \cup {c}
               /\ conn_pc' = [conn_pc EXCEPT ![c] = "ready"]
               /\ UNCHANGED conn_path
          ELSE /\ conn_pc' = [conn_pc EXCEPT ![c] = "finally"]
               /\ conn_path' = [conn_path EXCEPT ![c] = first]
               /\ UNCHANGED active_sessions

\* the send of the ready signal, 238-240, returns or raises
SendReady(c) ==
    /\ conn_pc[c] = "ready"
    /\ \E ok \in BOOLEAN :
          IF ok
          THEN conn_pc' = [conn_pc EXCEPT ![c] = "running"] /\ UNCHANGED conn_path
          ELSE /\ conn_pc' = [conn_pc EXCEPT ![c] = "finally"]
               /\ conn_path' = [conn_path EXCEPT ![c] = "disconnect"]
    /\ UNCHANGED active_sessions

\* await session.start(), 243, ends: it returns, the client disconnects, or
\* the pipeline raises
SessionEnds(c) ==
    /\ conn_pc[c] = "running"
    /\ \E how \in {"returned", "disconnect", "pipeline error"} :
          conn_path' = [conn_path EXCEPT ![c] = how]
    /\ conn_pc' = [conn_pc EXCEPT ![c] = "finally"]
    /\ UNCHANGED active_sessions

\* "if session_id in active_sessions", 251: the call goes on to await stop(),
\* or is over
FinallyBlock(c) ==
    /\ conn_pc[c] = "finally"
    /\ conn_pc' = [conn_pc EXCEPT ![c] =
                      IF c \in active_sessions THEN "stopping" ELSE "finished"]
    /\ UNCHANGED <<active_sessions, conn_path>>

\* "await active_sessions[session_id].stop()" and "del
\* active_sessions[session_id]", 252-253: the del is reached only if stop()
\* returns
AfterStop(sessions, c, stop_ok) ==
    IF stop_ok THEN sessions \ {c} ELSE sessions

\* stop(), 181-184, returns or raises; an exception leaves the finally block
\* and the call
StopSession(c) ==
    /\ conn_pc[c] = "stopping"
    /\ \E stop_ok \in BOOLEAN :
          /\ active_sessions' = AfterStop(active_sessions, c, stop_ok)
          /\ conn_path' = IF stop_ok THEN conn_path
                          ELSE [conn_path EXCEPT ![c] = "stop error"]
    /\ conn_pc' = [conn_pc EXCEPT ![c] = "finished"]

----------------------------------------------------------------------------
(* bot_simplified.py: TranscriptSender (20-61), against a websocket whose  *)
(* send_json may raise.                                                    *)

\* the frames fed to the TranscriptSender: interim and final transcripts of
\* two texts, one of them also with a leading blank, a blank transcript, and
\* a frame that is no transcript
TranscriptFrames ==
    { TranscriptionFrame(t, f) :
         t \in {<<"a">>, <<" ", "a">>, <<"b">>, <<" ">>}, f \in BOOLEAN }
    \cup {OtherFrame}

\* {"type": "transcript", "text": ..., "is_final": ..., "language": "en"}
TranscriptMessage(text, is_final) ==
    [type |-> "transcript", text |-> text, is_final |-> is_final, language |-> "en"]

\* a mutant of TranscriptSenderProcessFrame: the comparison with
\* last_transcript is missing and every transcript with text is sent
TranscriptSenderAlwaysSends(last, frame, send_ok) ==
    IF frame.kind = "TranscriptionFrame" /\ Strip(frame.text) # <<>>
    THEN [last   |-> IF ~send_ok THEN last
                     ELSE IF frame.speech_final THEN <<>> ELSE Strip(frame.text),
          ws     |-> <<TranscriptMessage(Strip(frame.text), frame.speech_final)>>,
          pushed |-> <<frame>>]
    ELSE [last |-> last, ws |-> <<>>, pushed |-> <<frame>>]

\* TranscriptSender.process_frame, bot_simplified.py 30-61: last_transcript
\* afterwards, the messages handed to send_json and the frames pushed.
\* last_transcript is assigned after send_json, inside the try (45-56), so a
\* send that raises leaves it as it was.
TranscriptSenderProcessFrame(last, frame, send_ok) ==
    IF frame.kind = "TranscriptionFrame"
    THEN LET is_final == frame.speech_final
             text     == Strip(frame.text)
         IN  IF text = <<>>
             THEN [last |-> last, ws |-> <<>>, pushed |-> <<frame>>]
             ELSE IF text # last \/ is_final
             THEN [last   |-> IF ~send_ok THEN last
                              ELSE IF is_final THEN <<>> ELSE text,
                   ws     |-> <<TranscriptMessage(text, is_final)>>,
                   pushed |-> <<frame>>]
             ELSE [last |-> last, ws |-> <<>>, pushed |-> <<frame>>]
    ELSE [last |-> last, ws |-> <<>>, pushed |-> <<frame>>]

InitTranscriptSender ==
    /\ last_transcript = <<>>
    /\ ts_frame = NoFrame
    /\ ts_ws = <<>>
    /\ ts_pushed = <<>>
    /\ ts_delivered = <<>>
    /\ ts_calls = 0

\* one process_frame call; send_ok: send_json returns (TRUE) or raises (FALSE)
TranscriptSenderStep ==
    /\ ts_calls < MaxTranscriptFrames
    /\ \E frame \in TranscriptFrames, send_ok \in BOOLEAN :
          LET r == TranscriptSenderProcessFrame(last_transcript, frame, send_ok)
          IN  /\ last_transcript' = r.last
              /\ ts_frame' = frame
              /\ ts_ws' = [i \in 1..Len(r.ws) |-> [msg |-> r.ws[i], ok |-> send_ok]]
              /\ ts_pushed' = r.pushed
              /\ ts_delivered' = IF send_ok THEN ts_delivered \o r.ws ELSE ts_delivered
    /\ ts_calls' = ts_calls + 1

----------------------------------------------------------------------------
(* Specifications.                                                         *)

InitAux == InitSnd /\ InitOut /\ InitStream /\ InitTranslate /\ InitSessions
           /\ InitTranscriptSender

Init == InitAgg /\ InitSrv /\ InitPipe /\ InitIn /\ InitStt /\ InitAux

\* the SentenceAggregator on its own
NextAgg == SentenceAggregatorStep /\ UNCHANGED <<srvVars, pipeVars, inVars, sttVars, auxVars>>

SpecAgg == Init /\ [][NextAgg]_vars

\* the SentenceAggregator against a websocket whose send_json may raise
NextSend == SendFailureStep /\ UNCHANGED <<srvVars, pipeVars, inVars, sttVars, auxVars>>

SpecSend == Init /\ [][NextSend]_vars

\* the input transport, its client and stop(EndFrame)
NextIn ==
    \/ InputStart /\ UNCHANGED <<aggVars, srvVars, pipeVars, sttVars, auxVars>>
    \/ ReceiveChunk /\ UNCHANGED <<aggVars, srvVars, pipeVars, sttVars, auxVars>>
    \/ PushAudioFrame /\ UNCHANGED <<aggVars, srvVars, pipeVars, sttVars, auxVars>>
    \/ ConnectionDrops /\ UNCHANGED <<aggVars, srvVars, pipeVars, sttVars, auxVars>>
    \/ ReceiveRaises /\ UNCHANGED <<aggVars, srvVars, pipeVars, sttVars, auxVars>>
    \/ PushCancelFrame /\ UNCHANGED <<aggVars, srvVars, pipeVars, sttVars, auxVars>>
    \/ DeliverCancel /\ UNCHANGED <<aggVars, srvVars, pipeVars, sttVars, auxVars>>
    \/ StopCancel /\ UNCHANGED <<aggVars, srvVars, pipeVars, sttVars, auxVars>>
    \/ StopReturns /\ UNCHANGED <<aggVars, srvVars, pipeVars, sttVars, auxVars>>

SpecIn == Init /\ [][NextIn]_vars

\* the same with the event loop's scheduling: a task that can run is run, so
\* every step of _receive_audio and of stop that stays enabled is taken; the
\* client is under no obligation to send or to disconnect
SpecInFair ==
    /\ SpecIn
    /\ WF_inVars(PushAudioFrame)
    /\ WF_inVars(ReceiveRaises) /\ WF_inVars(PushCancelFrame)
    /\ WF_inVars(DeliverCancel) /\ WF_inVars(StopReturns)

\* the pipeline of server.py
NextSrv ==
    \/ TranslationProcessorStep /\ UNCHANGED <<aggVars, pipeVars, inVars, sttVars, auxVars>>
    \/ FishAudioTTSStep /\ UNCHANGED <<aggVars, pipeVars, inVars, sttVars, auxVars>>

SpecSrv == Init /\ [][NextSrv]_vars

\* the first half of the pipeline of run_translation_bot, up to the LLM
\* service, whose responses stay in the queue of llm_debug_output
NextCtx ==
    \/ AggregatorStage(MaxCtxSentences) /\ UNCHANGED <<srvVars, inVars, sttVars, auxVars>>
    \/ PreprocessorStage /\ UNCHANGED <<aggVars, srvVars, inVars, sttVars, auxVars>>
    \/ ContextManagerStage /\ UNCHANGED <<aggVars, srvVars, inVars, sttVars, auxVars>>
    \/ DebugInputStage /\ UNCHANGED <<aggVars, srvVars, inVars, sttVars, auxVars>>
    \/ LLMStage /\ UNCHANGED <<aggVars, srvVars, inVars, sttVars, auxVars>>

SpecCtx == Init /\ [][NextCtx]_vars

\* a ContextManager fed Sentences and other frames one at a time, with the LLM
\* service downstream
NextWindow ==
    \/ NewContextManager /\ UNCHANGED <<aggVars, srvVars, inVars, sttVars, auxVars>>
    \/ (WindowIdle /\ FeedSentence) /\ UNCHANGED <<aggVars, srvVars, inVars, sttVars, auxVars>>
    \/ FeedOtherFrame /\ UNCHANGED <<aggVars, srvVars, inVars, sttVars, auxVars>>
    \/ ContextManagerStage /\ UNCHANGED <<aggVars, srvVars, inVars, sttVars, auxVars>>
    \/ DebugInputStage /\ UNCHANGED <<aggVars, srvVars, inVars, sttVars, auxVars>>
    \/ LLMStage /\ UNCHANGED <<aggVars, srvVars, inVars, sttVars, auxVars>>

SpecWindow == Init /\ [][NextWindow]_vars

\* a ContextManager fed Sentences directly, with the LLM service downstream
NextReset ==
    \/ NewContextManager /\ UNCHANGED <<aggVars, srvVars, inVars, sttVars, auxVars>>
    \/ FeedSentence /\ UNCHANGED <<aggVars, srvVars, inVars, sttVars, auxVars>>
    \/ ContextManagerStage /\ UNCHANGED <<aggVars, srvVars, inVars, sttVars, auxVars>>
    \/ DebugInputStage /\ UNCHANGED <<aggVars, srvVars, inVars, sttVars, auxVars>>
    \/ LLMStage /\ UNCHANGED <<aggVars, srvVars, inVars, sttVars, auxVars>>

SpecReset == Init /\ [][NextReset]_vars

\* the TranslationSender fed frame by frame
NextSender ==
    \/ SenderFeed /\ UNCHANGED <<coreVars, outVars, hsVars, trVars, wsVars, tsVars>>
    \/ TranslationSenderStep /\ UNCHANGED <<coreVars, outVars, hsVars, trVars, wsVars, tsVars>>

SpecSender == Init /\ [][NextSender]_vars

\* the output transport fed frame by frame
NextOut ==
    \/ OutputFeed /\ UNCHANGED <<coreVars, sndVars, hsVars, trVars, wsVars, tsVars>>
    \/ OutputTransportStep /\ UNCHANGED <<coreVars, sndVars, hsVars, trVars, wsVars, tsVars>>

SpecOut == Init /\ [][NextOut]_vars

\* one start_translation request to app_streaming.py
NextStream ==
    \/ HandleTranslation /\ UNCHANGED <<coreVars, sndVars, outVars, trVars, wsVars, tsVars>>
    \/ TranscribeAudio /\ UNCHANGED <<coreVars, sndVars, outVars, trVars, wsVars, tsVars>>
    \/ TranslateText /\ UNCHANGED <<coreVars, sndVars, outVars, trVars, wsVars, tsVars>>
    \/ PostTTS /\ UNCHANGED <<coreVars, sndVars, outVars, trVars, wsVars, tsVars>>
    \/ EmitAudioChunk /\ UNCHANGED <<coreVars, sndVars, outVars, trVars, wsVars, tsVars>>
    \/ StreamingComplete /\ UNCHANGED <<coreVars, sndVars, outVars, trVars, wsVars, tsVars>>

SpecStream == Init /\ [][NextStream]_vars

\* translate_text called again and again
NextTranslate == TranslateTextCall /\ UNCHANGED <<coreVars, sndVars, outVars, hsVars, wsVars, tsVars>>

SpecTranslate == Init /\ [][NextTranslate]_vars

\* the connections to server.py, their calls interleaved at every await
NextSessions ==
    \/ \E c \in Connections : AcceptConnection(c) /\ UNCHANGED <<coreVars, sndVars, outVars, hsVars, trVars, tsVars>>
    \/ \E c \in Connections : ReceiveConfig(c) /\ UNCHANGED <<coreVars, sndVars, outVars, hsVars, trVars, tsVars>>
    \/ \E c \in Connections : SendReady(c) /\ UNCHANGED <<coreVars, sndVars, outVars, hsVars, trVars, tsVars>>
    \/ \E c \in Connections : SessionEnds(c) /\ UNCHANGED <<coreVars, sndVars, outVars, hsVars, trVars, tsVars>>
    \/ \E c \in Connections : FinallyBlock(c) /\ UNCHANGED <<coreVars, sndVars, outVars, hsVars, trVars, tsVars>>
    \/ \E c \in Connections : StopSession(c) /\ UNCHANGED <<coreVars, sndVars, outVars, hsVars, trVars, tsVars>>

SpecSessions == Init /\ [][NextSessions]_vars

\* the TranscriptSender fed frame by frame
NextTranscript ==
    TranscriptSenderStep /\ UNCHANGED <<coreVars, sndVars, outVars, hsVars, trVars, wsVars>>

SpecTranscript == Init /\ [][NextTranscript]_vars

\* WhisperSTTService fed frame by frame
NextStt ==
    \/ WhisperProcessAudio /\ UNCHANGED <<aggVars, srvVars, pipeVars, inVars, auxVars>>
    \/ WhisperPassThrough /\ UNCHANGED <<aggVars, srvVars, pipeVars, inVars, auxVars>>

SpecStt == Init /\ [][NextStt]_vars

\* the whole pipeline of run_translation_bot
NextPipe ==
    \/ AggregatorStage(MaxPipeSentences) /\ UNCHANGED <<srvVars, inVars, sttVars, auxVars>>
    \/ PreprocessorStage /\ UNCHANGED <<aggVars, srvVars, inVars, sttVars, auxVars>>
    \/ ContextManagerStage /\ UNCHANGED <<aggVars, srvVars, inVars, sttVars, auxVars>>
    \/ DebugInputStage /\ UNCHANGED <<aggVars, srvVars, inVars, sttVars, auxVars>>
    \/ LLMStage /\ UNCHANGED <<aggVars, srvVars, inVars, sttVars, auxVars>>
    \/ DebugOutputStage /\ UNCHANGED <<aggVars, srvVars, inVars, sttVars, auxVars>>
    \/ TranslationSenderStage /\ UNCHANGED <<aggVars, srvVars, inVars, sttVars, auxVars>>
    \/ TranslationToTTSStage /\ UNCHANGED <<aggVars, srvVars, inVars, sttVars, auxVars>>
    \/ TTSStage /\ UNCHANGED <<aggVars, srvVars, inVars, sttVars, auxVars>>
    \/ OutputTransportStage /\ UNCHANGED <<aggVars, srvVars, inVars, sttVars, auxVars>>

SpecPipe == Init /\ [][NextPipe]_vars

\* the pipeline of run_translation_bot fed one final transcript, "Hello"
NextHello ==
    \/ HelloStage /\ UNCHANGED <<srvVars, inVars, sttVars, auxVars>>
    \/ PreprocessorStage /\ UNCHANGED <<aggVars, srvVars, inVars, sttVars, auxVars>>
    \/ ContextManagerStage /\ UNCHANGED <<aggVars, srvVars, inVars, sttVars, auxVars>>
    \/ DebugInputStage /\ UNCHANGED <<aggVars, srvVars, inVars, sttVars, auxVars>>
    \/ LLMStage /\ UNCHANGED <<aggVars, srvVars, inVars, sttVars, auxVars>>
    \/ DebugOutputStage /\ UNCHANGED <<aggVars, srvVars, inVars, sttVars, auxVars>>
    \/ TranslationSenderStage /\ UNCHANGED <<aggVars, srvVars, inVars, sttVars, auxVars>>
    \/ TranslationToTTSStage /\ UNCHANGED <<aggVars, srvVars, inVars, sttVars, auxVars>>
    \/ TTSStage /\ UNCHANGED <<aggVars, srvVars, inVars, sttVars, auxVars>>
    \/ OutputTransportStage /\ UNCHANGED <<aggVars, srvVars, inVars, sttVars, auxVars>>

SpecHello == Init /\ [][NextHello]_vars

\* TranslationToTTS on its own
NextConv == TranslationToTTSStep /\ UNCHANGED <<aggVars, srvVars, inVars, sttVars, auxVars>>

SpecConv == Init /\ [][NextConv]_vars

----------------------------------------------------------------------------
(* Claims about the SentenceAggregator, checked under SpecAgg.             *)

IsTranscription(f) == f.kind = "TranscriptionFrame"

\* the latest call was given an interim / a final transcription whose
\* trimmed text is not empty
LatestInterim ==
    /\ IsTranscription(agg_frame)
    /\ ~agg_frame.speech_final
    /\ Strip(agg_frame.text) # <<>>

LatestFinal ==
    /\ IsTranscription(agg_frame)
    /\ agg_frame.speech_final
    /\ Strip(agg_frame.text) # <<>>

\* C3 (as claimed): a text is forwarded at most once: when an interim event
\* ending in terminal punctuation was pushed as a Sentence, the final event
\* that follows it with the same text pushes no second Sentence.
C3_NoSecondSentence ==
    [][ ( /\ LatestInterim
          /\ Sentences(agg_pushed) # <<>>
          /\ IsTranscription(agg_frame')
          /\ agg_frame'.speech_final
          /\ Strip(agg_frame'.text) = agg_pushed[1].text )
        => Sentences(agg_pushed') = <<>> ]_vars

\* C4 (as claimed): an interim event whose trimmed text ends in terminal
\* punctuation but is not longer than the minimum threshold pushes no
\* Sentence and stays in the buffer. Stated for whichever threshold of at
\* least one character suits the state best.
C4_ShortInterimIsBuffered ==
    \E threshold \in 1..MaxTextLen :
        ( /\ LatestInterim
          /\ HasPunctuation(Strip(agg_frame.text))
          /\ Len(Strip(agg_frame.text)) <= threshold )
        => ( /\ Sentences(agg_pushed) = <<>>
             /\ sentence_buffer = Strip(agg_frame.text) )

\* C4 (amended): an interim event with non-empty trimmed text pushes a
\* Sentence exactly when the trimmed text ends in terminal punctuation,
\* whatever its length: then the Sentence is the trimmed text and the buffer
\* is cleared; otherwise nothing is pushed and the trimmed text is the buffer.
C4_InterimBoundaryIsPunctuation ==
    LatestInterim =>
        IF HasPunctuation(Strip(agg_frame.text))
        THEN /\ agg_pushed = <<TranscriptionFrame(Strip(agg_frame.text), FALSE)>>
             /\ sentence_buffer = <<>>
        ELSE /\ agg_pushed = <<>>
             /\ sentence_buffer = Strip(agg_frame.text)

\* a one-character interim "." was pushed as a Sentence
C4_Witness ==
    /\ LatestInterim
    /\ Len(Strip(agg_frame.text)) = 1
    /\ Len(Sentences(agg_pushed)) = 1
    /\ sentence_buffer = <<>>

\* C5: a TranscriptionFrame whose text is empty after trimming, interim or
\* final, pushes nothing and leaves sentence_buffer as it was.
C5_EmptyTextIgnored ==
    (IsTranscription(agg_frame) /\ \A i \in 1..Len(agg_frame.text) :
                                      agg_frame.text[i] \in Whitespace)
    => (agg_pushed = <<>> /\ sentence_buffer = agg_before)

\* a blank-only frame arrived while the buffer held text
C5_Witness ==
    /\ IsTranscription(agg_frame)
    /\ agg_frame.text # <<>>
    /\ \A i \in 1..Len(agg_frame.text) : agg_frame.text[i] \in Whitespace
    /\ agg_before # <<>>
    /\ sentence_buffer = agg_before

\* C6: every Sentence pushed downstream has text that is not empty and has
\* no leading or trailing whitespace.
C6_SentenceTrimmedNonEmpty ==
    \A i \in 1..Len(agg_pushed) :
        IsTranscription(agg_pushed[i]) =>
            LET t == agg_pushed[i].text
            IN  /\ t # <<>>
                /\ t[1] \notin Whitespace
                /\ t[Len(t)] \notin Whitespace

\* a Sentence was pushed for a frame whose text had surrounding blanks
C6_Witness ==
    /\ Len(Sentences(agg_pushed)) = 1
    /\ agg_frame.text # agg_pushed[1].text
    /\ agg_frame.text[1] \in Whitespace

\* C7: a final event with non-empty trimmed text pushes exactly one Sentence,
\* whose text is the trimmed text, with or without punctuation and whatever
\* the buffer held, and leaves sentence_buffer empty.
C7_FinalEmitsTrimmedText ==
    LatestFinal =>
        /\ Len(agg_pushed) = 1
        /\ IsTranscription(agg_pushed[1])
        /\ agg_pushed[1].text = Strip(agg_frame.text)
        /\ sentence_buffer = <<>>

\* a final without punctuation arrived while the buffer held another text
C7_Witness ==
    /\ LatestFinal
    /\ ~HasPunctuation(Strip(agg_frame.text))
    /\ agg_before # <<>>
    /\ agg_before # Strip(agg_frame.text)
    /\ Len(agg_pushed) = 1

\* C8: when every event so far is an interim and only the latest ends in
\* terminal punctuation, exactly one Sentence has been pushed in all, its
\* text is the latest event's trimmed text, and the buffer is empty.
C8_OneSentenceForInterimRun ==
    (agg_quiet /\ LatestInterim /\ HasPunctuation(Strip(agg_frame.text)))
    => /\ agg_total = 1
       /\ Len(agg_pushed) = 1
       /\ IsTranscription(agg_pushed[1])
       /\ agg_pushed[1].text = Strip(agg_frame.text)
       /\ sentence_buffer = <<>>

\* the run had an earlier interim, whose text was in the buffer
C8_Witness ==
    /\ agg_quiet /\ LatestInterim /\ HasPunctuation(Strip(agg_frame.text))
    /\ agg_before # <<>>
    /\ agg_total = 1

----------------------------------------------------------------------------
(* Claims about the server.py pipeline, checked under SpecSrv.             *)

\* C2 (as claimed): when translate raises for a sentence, no text for that
\* sentence is forwarded downstream to the synthesizer.
C2_FailedSentenceNotForwarded ==
    tp_raised => tp_pushed = <<>>

\* C2 (amended): when translate raises for a sentence, exactly one frame is
\* forwarded to the synthesizer for it, the original frame with its
\* untranslated text; and every text frame for which translate returns, also
\* one that follows failures, is forwarded as one TextFrame holding the
\* translation.
C2_FailedSentenceForwardedUntranslated ==
    (IsTextFrame(tp_frame) /\ Strip(tp_frame.text) # <<>>)
    => IF tp_raised
       THEN tp_pushed = <<tp_frame>>
       ELSE tp_pushed = <<TextFrame(Translated(tp_frame.text))>>

\* translate raised, the untranslated frame waits for the synthesizer, and a
\* translate call had already raised before
C2_Witness ==
    /\ tp_raised
    /\ srv_failed >= 2
    /\ q_tts # <<>>
    /\ q_tts[Len(q_tts)] = tp_frame

----------------------------------------------------------------------------
(* Claims about the pipeline of run_translation_bot.                       *)

\* C1 (as claimed), under SpecCtx: whenever the ContextManager has just
\* processed a Sentence, the conversation history (the system prompt and the
\* user and assistant turns accumulated so far) holds at most max_messages
\* messages.
C1_HistoryBounded ==
    [][cm_sentences' > cm_sentences =>
          Len(llm_messages') <= PipelineMaxMessages]_vars

\* a precedes b: an earlier Sentence, or an earlier token of the same one
Precedes(a, b) == a.src < b.src \/ (a.src = b.src /\ a.idx < b.idx)

\* C9, under SpecPipe: the requests reach the translator in the order in
\* which the aggregator completed the Sentences, none skipped, and the audio
\* handed to the websocket follows the order of the Sentences and, within a
\* Sentence, of its tokens.
C9_FifoOrder ==
    /\ \A i \in 1..Len(llm_requests) : llm_requests[i].src = i
    /\ \A i, j \in 1..Len(ws_audio) :
          i < j => Precedes(ws_audio[i], ws_audio[j])

\* the second Sentence is already with the translator while a token of the
\* first still waits for synthesis and another was already sent
C9_Witness ==
    /\ Len(llm_requests) = 2
    /\ \E i \in 1..Len(q_syn) : q_syn[i].kind = "TTSTextFrame" /\ q_syn[i].src = 1
    /\ ws_audio # <<>>

IsLLMText(f) == f.kind = "LLMTextFrame"

IsTTSText(f) == f.kind = "TTSTextFrame"

\* C10, under SpecConv: the texts of the TTSTextFrames pushed by
\* TranslationToTTS, concatenated, are the texts of the LLMTextFrames it
\* received, concatenated.
C10_ConcatenationPreserved ==
    Concat(SelectSeq(conv_out, IsTTSText)) = Concat(SelectSeq(conv_in, IsLLMText))

\* the stream held a blank token, a frame that is no token, and two tokens
\* with text
C10_Witness ==
    /\ \E i \in 1..Len(conv_in) : IsLLMText(conv_in[i]) /\ conv_in[i].text = <<" ">>
    /\ \E i \in 1..Len(conv_in) : ~IsLLMText(conv_in[i])
    /\ \E i, j \in 1..Len(conv_in) :
          /\ i < j
          /\ IsLLMText(conv_in[i]) /\ IsLLMText(conv_in[j])
          /\ conv_in[i].text # conv_in[j].text
          /\ Strip(conv_in[i].text) # <<>> /\ Strip(conv_in[j].text) # <<>>
    /\ Len(SelectSeq(conv_out, IsTTSText)) = 3

----------------------------------------------------------------------------
(* Claims about failures inside the processors.                            *)

\* the latest call was given a transcript that completes a Sentence
CompletesSentence ==
    /\ IsTranscription(agg_frame)
    /\ Strip(agg_frame.text) # <<>>
    /\ (agg_frame.speech_final \/ HasPunctuation(Strip(agg_frame.text)))

\* send_json raised in the latest call
SendRaised == \E i \in 1..Len(agg_ws) : ~agg_ws[i].ok

\* C11, under SpecSend: an event that completes a Sentence pushes that
\* Sentence, leaves sentence_buffer empty and lets no exception out of
\* process_frame, whether send_json returned or raised in this call and
\* whatever number of earlier calls had their send_json raise.
C11_SendFailureDoesNotAbort ==
    CompletesSentence =>
        /\ agg_pushed = <<TranscriptionFrame(Strip(agg_frame.text), FALSE)>>
        /\ sentence_buffer = <<>>
        /\ ~agg_raised

\* send_json raised while a Sentence was completed, after an earlier call in
\* which it had raised too, and after a Sentence had been pushed before
C11_Witness ==
    /\ CompletesSentence /\ SendRaised
    /\ agg_failures >= 2
    /\ agg_total >= 2

\* C12, under SpecSrv: when text_to_speech raises for a chunk, the call
\* pushes no frame, has called text_to_speech once and lets no exception out;
\* and a chunk for which text_to_speech returns, also one that follows
\* failures, is pushed as one audio frame holding its speech.
C12_FailedChunkOmitted ==
    /\ tts_raised =>
          tts_pushed = <<>> /\ tts_calls = 1 /\ ~tts_escaped
    /\ (IsTextFrame(tts_frame) /\ Strip(tts_frame.text) # <<>> /\ ~tts_raised) =>
          tts_pushed = <<AudioRawFrame(tts_frame.text)>> /\ tts_calls = 1

\* text_to_speech raised for a chunk after it had raised for an earlier one,
\* and the service went on to take this chunk
C12_Witness ==
    /\ tts_raised
    /\ tts_failed >= 2
    /\ tts_pushed = <<>>

----------------------------------------------------------------------------
(* Claims about FastAPIInputTransport.                                     *)

\* the transport has pushed a CancelFrame: the session is closing
Closing == CountKind(in_pushed, "CancelFrame") > 0

\* C13, under SpecIn: the transport pushes at most one CancelFrame; once
\* _receive_audio has returned after a failed receive it has pushed exactly
\* one, as its last frame; and once a CancelFrame is pushed the transport
\* pushes nothing more and its task never receives again.
C13_OneCancelFrameThenNothing ==
    /\ []( /\ CountKind(in_pushed, "CancelFrame") <= 1
           /\ receive_task = "done" =>
                 /\ CountKind(in_pushed, "CancelFrame") = 1
                 /\ in_pushed[Len(in_pushed)] = "CancelFrame" )
    /\ [][Closing => /\ in_pushed' = in_pushed
                     /\ receive_task' \notin {"receive", "push", "except"}]_vars

\* the connection dropped after audio had been pushed, the except branch ran
\* and the task returned
C13_Witness ==
    /\ ~ws_connected
    /\ receive_task = "done"
    /\ Closing
    /\ CountKind(in_pushed, "InputAudioRawFrame") >= 2

\* C14, under SpecInFair: a receive task that is blocked in receive_bytes
\* when the connection is down or when stop has asked for its cancellation
\* ends, and a stop that awaits the task returns.
C14_CancellationTerminates ==
    /\ (receive_task = "receive" /\ (~ws_connected \/ cancel_requested))
          ~> Finished(receive_task)
    /\ (stop_pc = "await") ~> (stop_pc = "returned")

\* stop was called while the task was blocked in receive_bytes on a live
\* connection, the task was cancelled and stop returned
C14_Witness ==
    /\ stop_pc = "returned"
    /\ receive_task = "cancelled"
    /\ ws_connected
    /\ in_pushed # <<>>

----------------------------------------------------------------------------
(* Claims about the ContextManager.                                        *)

ResetStep ==
    /\ cm_sentences' = cm_sentences + 1
    /\ Head(q_cm).kind = "TranscriptionFrame"
    /\ message_count + 1 >= cm_max_messages

\* C16, under SpecReset: the first message of the history is the system
\* prompt in every state, and a reset leaves the history holding exactly
\* that message, however many turns it held before.
C16_ResetKeepsOnlySystemPrompt ==
    /\ [](Len(llm_messages) >= 1 /\ llm_messages[1] = InitialMessages[1])
    /\ [][ResetStep => llm_messages' = <<llm_messages[1]>>]_vars

\* a ContextManager with max_messages above 1 has reset a history that held
\* turns of an answered request
C16_Witness ==
    /\ cm_max_messages >= 2
    /\ cm_sentences >= 2
    /\ message_count = 0
    /\ Len(llm_requests) >= 1
    /\ llm_messages = InitialMessages

\* C19 (as claimed), under SpecCtx: every Sentence the ContextManager has
\* processed advanced message_count by one, the count returning to 0 at
\* every 5th.
C19_EverySentenceCounted ==
    message_count = cm_sentences % PipelineMaxMessages

----------------------------------------------------------------------------
(* Claims about WhisperSTTService.                                         *)

\* the units received and not yet cut into a window
Unwindowed ==
    [i \in 1..(stt_fed - MinBufferSize * Len(stt_transcribed)) |->
        MinBufferSize * Len(stt_transcribed) + i]

\* C18, under SpecStt: a call whose transcription fails pushes no
\* TranscriptionFrame and lets no exception out; no window is handed to
\* Whisper twice, the k-th being the k-th run of units of the stream; the
\* buffer always holds exactly the units received since the last window;
\* and a call whose window Whisper decodes to text, also after failures,
\* pushes that window's transcript.
C18_FailedWindowDropped ==
    /\ stt_outcome \in SttFailures =>
          /\ \A i \in 1..Len(stt_pushed) : stt_pushed[i].kind # "TranscriptionFrame"
          /\ stt_window # <<>>
    /\ ~stt_escaped
    /\ \A k \in 1..Len(stt_transcribed) :
          stt_transcribed[k] =
              [i \in 1..MinBufferSize |-> MinBufferSize * (k - 1) + i]
    /\ audio_buffer = Unwindowed
    /\ stt_outcome = "text" => stt_pushed = <<SttTranscriptionFrame(stt_window)>>

\* a window was transcribed to text after the window before it had failed,
\* while more audio is buffered
C18_Witness ==
    /\ stt_outcome = "text"
    /\ stt_failed >= 1
    /\ Len(stt_transcribed) >= 2
    /\ audio_buffer # <<>>

\* C28 (as claimed), under SpecStt: after every run_stt call fewer than
\* _min_buffer_size samples remain in _audio_buffer, and the samples handed
\* to transcription are the samples received before those still buffered, each
\* once and in the order of arrival.
C28_BufferBelowMinimum ==
    /\ Len(audio_buffer) < MinBufferSize
    /\ \A k \in 1..Len(stt_transcribed) :
          stt_transcribed[k] =
              [i \in 1..MinBufferSize |-> MinBufferSize * (k - 1) + i]
    /\ stt_fed = MinBufferSize * Len(stt_transcribed) + Len(audio_buffer)

----------------------------------------------------------------------------
(* Claims about the status messages of the SentenceAggregator.             *)

\* C20, under SpecAgg: a TranscriptionFrame whose trimmed text is not empty
\* makes the aggregator hand exactly one message to websocket.send_json, an
\* original-mode transcript message carrying the trimmed text of the event,
\* and push at most one Sentence.
C20_OneStatusPerEvent ==
    (IsTranscription(agg_frame) /\ Strip(agg_frame.text) # <<>>) =>
        /\ Len(agg_ws) = 1
        /\ agg_ws[1].msg.type = "transcript"
        /\ agg_ws[1].msg.mode = "original"
        /\ agg_ws[1].msg.text = Strip(agg_frame.text)
        /\ Len(Sentences(agg_pushed)) <= 1
        /\ Len(agg_pushed) = Len(Sentences(agg_pushed))

\* an interim with surrounding blanks that completes no Sentence was
\* reported once, as not final
C20_Witness ==
    /\ LatestInterim
    /\ Strip(agg_frame.text) # <<>>
    /\ Strip(agg_frame.text) # agg_frame.text
    /\ agg_pushed = <<>>
    /\ Len(agg_ws) = 1 /\ ~agg_ws[1].msg.is_final

----------------------------------------------------------------------------
(* The end-to-end scenario, checked under SpecHello.                       *)

\* the Sentence of the scenario: the trimmed text of the transcript fed
HelloSentence == Strip(agg_frame.text)

\* the text units handed to the synthesizer so far
Units == SelectSeq(conv_out, IsTTSText)

\* the one request was answered and every frame of the answer has passed
\* TranslationToTTS
Answered ==
    /\ Len(llm_requests) = 1
    /\ q_dbg_out = <<>> /\ q_sender = <<>> /\ q_conv = <<>>

\* C17 (as claimed): the translator's request holds the system prompt and
\* the single user turn "Hello", the text of the Sentence.
C17_UserTurnIsSentence ==
    Len(llm_requests) >= 1 =>
        llm_requests[1].messages =
            <<InitialMessages[1], [role |-> "user", content |-> HelloSentence]>>

\* C17 (amended): one final transcript yields one Sentence, its trimmed
\* text, and one request, whose history is the system prompt and one user
\* turn: the Sentence behind the instruction "Translate to <language>: ";
\* the units handed to the synthesizer are the tokens of the answer, one unit
\* per token, so an answer of the single token "hola" is one unit "hola".
C17_OneRequestWithInstruction ==
    /\ agg_total <= 1 /\ Len(llm_requests) <= 1
    /\ q_pre # <<>> => q_pre = <<PFrame("TranscriptionFrame", HelloSentence, 1, 0)>>
    /\ Len(llm_requests) = 1 =>
          llm_requests[1].messages =
              <<InitialMessages[1],
                [role |-> "user", content |-> TranslationPrompt(HelloSentence)]>>
    /\ Answered =>
          /\ Concat(Units) = llm_messages[3].content
          /\ \A i \in 1..Len(Units) : Units[i].text = TokenText(i)
          /\ llm_messages[3].content = TokenText(1) => Len(Units) = 1

\* "Hello" was fed, answered by the single token "hola", which was handed to
\* the synthesizer as one unit and sent to the client as one piece of audio
C17_Witness ==
    /\ agg_frame.text = Hello
    /\ Answered
    /\ llm_messages[3].content = TokenText(1)
    /\ Len(Units) = 1 /\ Units[1].text = TokenText(1)
    /\ Len(ws_audio) = 1

----------------------------------------------------------------------------
(* Claims about the is_final flag, checked under SpecAgg.                  *)

\* C21, under SpecAgg: the is_final flag of an original-mode status message
\* is true exactly when the event it reports completed a Sentence that the
\* call pushed downstream (a final event, or an interim whose trimmed text
\* ends in terminal punctuation), and false exactly when the text was only
\* buffered: nothing pushed, the text left in sentence_buffer.
C21_FinalFlagIffSentencePushed ==
    \A i \in 1..Len(agg_ws) :
        LET msg == agg_ws[i].msg
        IN  /\ msg.mode = "original"
            /\ msg.is_final = (Sentences(agg_pushed) = <<TranscriptionFrame(msg.text, FALSE)>>)
            /\ msg.is_final = (agg_frame.speech_final \/ HasPunctuation(Strip(agg_frame.text)))
            /\ (~msg.is_final) = (agg_pushed = <<>> /\ sentence_buffer = msg.text)

\* an interim ending in a full stop was reported as final and pushed as a
\* Sentence, after an interim that was only buffered
C21_Witness ==
    /\ LatestInterim
    /\ agg_before # <<>>
    /\ Len(agg_ws) = 1 /\ agg_ws[1].msg.is_final
    /\ Len(Sentences(agg_pushed)) = 1
    /\ sentence_buffer = <<>>

----------------------------------------------------------------------------
(* Claims about the window of the ContextManager, checked under SpecWindow.*)

\* the step is a process_frame call of the ContextManager
ContextManagerCall == q_cm # <<>> /\ q_cm' = Tail(q_cm)

\* the frame of that call is a multiple-of-max_messages-th Sentence
WindowFull ==
    /\ Head(q_cm).kind = "TranscriptionFrame"
    /\ (cm_sentences + 1) % cm_max_messages = 0

\* C22, under SpecWindow: a ContextManager with max_messages = N >= 1 resets
\* the history (to its first message, with message_count back at 0) in the
\* call that processes its N-th, 2N-th, 3N-th ... Sentence; any other call
\* leaves the history as it is, a Sentence advancing message_count by one and
\* any other frame leaving it; and 0 <= message_count < N in every state.
C22_ResetEveryNthSentence ==
    /\ [](cm_max_messages >= 1 /\ 0 <= message_count /\ message_count < cm_max_messages)
    /\ [][ContextManagerCall =>
            IF WindowFull
            THEN /\ llm_messages' = <<llm_messages[1]>>
                 /\ message_count' = 0
            ELSE /\ llm_messages' = llm_messages
                 /\ message_count' = message_count +
                       (IF Head(q_cm).kind = "TranscriptionFrame" THEN 1 ELSE 0)]_vars

\* a ContextManager with max_messages = 2 has processed three Sentences and
\* another frame; the history, reset at the second, holds the turns of a
\* request answered since
C22_Witness ==
    /\ cm_max_messages = 2
    /\ cm_sentences = 3
    /\ message_count = 1
    /\ Len(Underived(q_dbg_in \o q_llm \o q_dbg_out)) >= 1
    /\ Len(llm_messages) = 3

----------------------------------------------------------------------------
(* Claims about the TranslationSender, checked under SpecSender.           *)

\* C23, under SpecSender: the frames the TranslationSender has pushed
\* downstream are the frames it has processed, each once and in the order of
\* arrival, whether or not a frame carries translation text and whether or
\* not the send_json of its status message raised; no exception leaves a call.
C23_EveryFramePushedOnce ==
    /\ snd_out = snd_in
    /\ ~snd_escaped
    /\ \A i \in 1..Len(snd_in) : snd_in[i].idx = i

\* three frames were processed: the send for the latest, a token with text,
\* raised; a frame before it had no translation text
C23_Witness ==
    /\ Len(snd_in) = 3
    /\ Len(snd_ws) = 1 /\ ~snd_ws[1].ok
    /\ \E i \in 1..2 : TranslationSenderMessages(snd_in[i]) = <<>>
    /\ Len(snd_out) = 3

----------------------------------------------------------------------------
(* Claims about FastAPIOutputTransport, checked under SpecOut.             *)

\* the send_bytes attempts made for the frame of ordinal idx
AttemptsFor(idx) == SelectSeq(out_sends, LAMBDA s : s.idx = idx)

\* C24, under SpecOut: every TTSAudioRawFrame the output transport has
\* processed caused exactly one send_bytes attempt, carrying the audio of
\* that frame; the attempts are in the order in which the frames arrived; and
\* this holds for the frames that follow a failed send as well, no exception
\* leaving a call.
C24_OneSendPerAudioFrame ==
    /\ \A i \in 1..Len(out_in) :
          out_in[i].kind = "TTSAudioRawFrame" =>
              /\ Len(AttemptsFor(i)) = 1
              /\ AttemptsFor(i)[1].audio = out_in[i].text
    /\ \A j, k \in 1..Len(out_sends) : j < k => out_sends[j].idx < out_sends[k].idx
    /\ ~out_escaped

\* the send for a first TTS audio frame raised, and a second TTS audio frame
\* with other audio was sent after it
C24_Witness ==
    /\ Len(out_sends) >= 2
    /\ ~out_sends[1].ok
    /\ out_in[out_sends[1].idx].kind = "TTSAudioRawFrame"
    /\ out_in[out_sends[2].idx].kind = "TTSAudioRawFrame"
    /\ out_sends[2].ok
    /\ out_sends[2].audio # out_sends[1].audio

----------------------------------------------------------------------------
(* Claims about app_streaming.py, checked under SpecStream.                *)

\* the events of one name emitted so far
EventsNamed(name) == SelectSeq(hs_events, LAMBDA e : e.name = name)

\* the request has ended, by a return or by an exception
RequestEnded == hs_pc \in {"returned", "raised"}

\* C25 (as claimed), under SpecStream: once a TTS response has been streamed
\* to its end, the total_chunks of every audio_chunk event is the number of
\* audio_chunk events emitted, and their chunk_numbers are 0, 1, 2, ... in
\* order.
C25_TotalChunksIsCount ==
    (RequestEnded /\ EventsNamed("streaming_complete") # <<>>) =>
        LET chunks == EventsNamed("audio_chunk")
        IN  \A k \in 1..Len(chunks) :
                /\ chunks[k].total_chunks = Len(chunks)
                /\ chunks[k].chunk_number = k - 1

\* C26 (as claimed), under SpecStream: a request that has ended has emitted
\* exactly one terminal event, streaming_complete or error, and a
\* streaming_complete comes after an audio_chunk whose is_final is true.
C26_OneTerminalEvent ==
    RequestEnded =>
        /\ Len(EventsNamed("streaming_complete")) + Len(EventsNamed("error")) = 1
        /\ EventsNamed("streaming_complete") # <<>> =>
              \E k \in 1..Len(hs_events) :
                  hs_events[k].name = "audio_chunk" /\ hs_events[k].is_final

----------------------------------------------------------------------------
(* Claims about the translation cache of app.py, checked under             *)
(* SpecTranslate.                                                          *)

\* C27 (as claimed), under SpecTranslate: the value a translate_text call
\* returns is a translation of the text it was called with, to the language
\* it was called with, whether it came from the model or from the cache.
C27_CachedTranslationMatches ==
    tr_call # NoCall =>
        tr_call.result = Translation(tr_call.text, tr_call.target_language)

----------------------------------------------------------------------------
(* Claims about the sessions of server.py, checked under SpecSessions.     *)

\* C29 (as claimed), under SpecSessions: once the websocket_translate call of
\* a connection has finished, on whatever path and whatever the other
\* connections do, active_sessions holds no entry for that connection.
C29_NoEntryAfterFinish ==
    \A c \in Connections : conn_pc[c] = "finished" => c \notin active_sessions

----------------------------------------------------------------------------
(* Claims about the TranscriptSender of bot_simplified.py, checked under   *)
(* SpecTranscript.                                                         *)

\* C30, under SpecTranscript: of the messages delivered, no two in a row are
\* interims with the same text; a final transcript whose trimmed text is not
\* empty is handed to send_json, once, as final and with that text, whatever
\* was sent before; and every call pushes its frame downstream, once,
\* whether the frame is a transcript or not, has text or not, was sent or
\* not, and whether or not the send raised.
C30_NoRepeatedInterim ==
    /\ \A i \in 1..(Len(ts_delivered) - 1) :
          (~ts_delivered[i].is_final /\ ~ts_delivered[i + 1].is_final)
             => ts_delivered[i].text # ts_delivered[i + 1].text
    /\ (ts_frame.kind = "TranscriptionFrame" /\ ts_frame.speech_final
          /\ Strip(ts_frame.text) # <<>>)
         => /\ Len(ts_ws) = 1
            /\ ts_ws[1].msg = TranscriptMessage(Strip(ts_frame.text), TRUE)
    /\ ts_calls > 0 => ts_pushed = <<ts_frame>>

\* of four frames fed one was delivered, an interim "a"; the latest frame is
\* the same text again as an interim, with a leading blank, and was not sent
\* but pushed on
C30_Witness ==
    /\ ts_calls = 4
    /\ Len(ts_delivered) = 1 /\ ~ts_delivered[1].is_final
    /\ ts_frame = TranscriptionFrame(<<" ", "a">>, FALSE)
    /\ last_transcript = <<"a">>
    /\ ts_ws = <<>>
    /\ ts_pushed = <<ts_frame>>

====
